---- MODULE Spec2Model ----
(***************************************************************************)
(* A model of the foodgram backend: the Recipe / RecipeIngredient tables,  *)
(* the Favorite, ShoppingCart and Follow relations, the request handlers   *)
(* that change them and the shopping-list export that reads them.          *)
(*                                                                         *)
(* A table with a uniqueness constraint is a function from its key to the  *)
(* number of rows stored under that key, so that "one row per key" is a    *)
(* property of the handlers and the constraint, not of the encoding.       *)
(***************************************************************************)
EXTENDS Integers, Sequences, FiniteSets, TLC

\* ------------------------------------------------------------------ bounds

\* Recipes ever created (primary keys 1..MaxRecipes).
MaxRecipes == 2
\* Largest ordinary ingredient amount a request submits.
MaxAmount == 2
\* Longest ingredient list a request submits.
MaxComponents == 2
\* Distinct values uuid4().hex[:4] takes in the model (16^4 in the program).
NumSuffixes == 2

\* -------------------------------------------------------- program constants

\* slugify(self.name)[:6]
SlugPrefixLen == 6
\* validate_amount: min_value = 1
MinAmount == 1
\* The largest value a PositiveSmallIntegerField column holds on a backend
\* that enforces the column range.
SmallIntMax == 32767

\* MaxValueValidator(32000) of RecipeIngredient.amount (the model field's
\* validator, as frozen in migration 0005).
MaxIngredientAmount == 32000

\* ------------------------------------------------------------------- data

Users == {"chef", "baker"}
\* An id that names no user (get_object_or_404 misses).
NoSuchUser == "nobody"
RecipeIds == 1..MaxRecipes
HexSuffixes == 1..NumSuffixes

\* The ingredient catalog: id -> (name, measurement_unit).  Names are given by
\* their rank in the datastore's collation, so that they can be compared.
\* Two catalog entries share the name 1 ("flour") with different units; ids
\* are not in name order.  (name, measurement_unit) is unique, as
\* Ingredient.Meta.unique_together requires.
Ingredients == {1, 2, 3}
IngredientName == (1 :> 2) @@ (2 :> 1) @@ (3 :> 1)
IngredientUnit == (1 :> "g") @@ (2 :> "g") @@ (3 :> "kg")

\* ---------------------------------------------------------------- helpers

Min(a, b) == IF a <= b THEN a ELSE b

RECURSIVE SumSeq(_)
SumSeq(s) == IF s = <<>> THEN 0 ELSE Head(s) + SumSeq(Tail(s))

RECURSIVE SumOver(_, _)
\* The sum of f[x] over the finite set S.
SumOver(S, f) ==
    IF S = {} THEN 0
    ELSE LET x == CHOOSE y \in S : TRUE
         IN f[x] + SumOver(S \ {x}, f)

\* A response: HTTP status, the message or file name it carries, and the rows
\* of a rendered shopping list (empty for every other response).
Response(status, detail) == [status |-> status, detail |-> detail, rows |-> <<>>]

\* The request being answered: the handler, the HTTP method, the
\* caller and the addressed id.
Request(op, method, user, target) ==
    [op |-> op, method |-> method, user |-> user, target |-> target]

VARIABLES
    recipes,             \* Recipe table: id -> [author, name, short_code]
    next_id,             \* the Recipe table's primary-key sequence
    recipe_ingredients,  \* RecipeIngredient table: <<recipe, ingredient>> -> amounts stored
    favorites,           \* Favorite table: <<user, recipe>> -> number of rows
    shopping_carts,      \* ShoppingCart table: <<user, recipe>> -> number of rows
    follows,             \* Follow table: <<user, author>> -> number of rows
    workers,             \* requests in flight, handled step by step
    request,             \* the last request answered
    response,            \* the response to it
    ingredient_table,    \* Ingredient table: rows per (name, measurement_unit)
    users                \* CustomUser table: the accounts stored

vars == <<recipes, next_id, recipe_ingredients, favorites, shopping_carts,
          follows, workers, request, response, ingredient_table, users>>

\* Ingredient.objects: the ingredients that have a row, each named by the
\* key Ingredients gives its (name, measurement_unit) pair.
StoredIngredients == {i \in Ingredients : ingredient_table[i] > 0}

\* ----------------------------------------------------------------- slugify

\* The characters recipe names are written in here: letters of both cases, the
\* space, the hyphen and "#", which stands for any character slugify drops
\* (punctuation, or a letter outside ASCII such as a Cyrillic one).
LowerOf == ("P" :> "p") @@ ("I" :> "i") @@ ("E" :> "e") @@ ("O" :> "o") @@ ("N" :> "n")

Lower(c) == IF c \in DOMAIN LowerOf THEN LowerOf[c] ELSE c

\* \w of the regular expression, after lower(): a letter, a digit or "_".
IsWordChar(c) == c \in {"p", "i", "e", "o", "n", "_"}

\* [-\s] of the regular expression.
IsSeparator(c) == c \in {" ", "-"}

KeptBySlugify(c) == IsWordChar(c) \/ IsSeparator(c)

RECURSIVE LowerSeq(_)
LowerSeq(s) == IF s = <<>> THEN <<>> ELSE <<Lower(Head(s))>> \o LowerSeq(Tail(s))

RECURSIVE DropSeparators(_)
DropSeparators(s) ==
    IF s # <<>> /\ IsSeparator(Head(s)) THEN DropSeparators(Tail(s)) ELSE s

RECURSIVE CollapseSeparators(_)
\* re.sub(r"[-\s]+", "-", value)
CollapseSeparators(s) ==
    IF s = <<>> THEN <<>>
    ELSE IF IsSeparator(Head(s))
         THEN <<"-">> \o CollapseSeparators(DropSeparators(Tail(s)))
         ELSE <<Head(s)>> \o CollapseSeparators(Tail(s))

RECURSIVE StripLeft(_)
StripLeft(s) ==
    IF s # <<>> /\ Head(s) \in {"-", "_"} THEN StripLeft(Tail(s)) ELSE s

RECURSIVE StripRight(_)
StripRight(s) ==
    IF s # <<>> /\ s[Len(s)] \in {"-", "_"}
    THEN StripRight(SubSeq(s, 1, Len(s) - 1))
    ELSE s

\* django.utils.text.slugify: lower-case, drop what is neither a word character
\* nor a separator, turn each run of separators into one hyphen, strip leading
\* and trailing hyphens and underscores.
slugify(name) ==
    StripRight(StripLeft(CollapseSeparators(
        SelectSeq(LowerSeq(name), KeptBySlugify))))

\* base_slug = slugify(self.name)[:6] or 'recipe'
base_slug(name) ==
    LET slug == slugify(name)
        cut == SubSeq(slug, 1, Min(SlugPrefixLen, Len(slug)))
    IN IF cut = <<>> THEN <<"r", "e", "c", "i", "p", "e">> ELSE cut

\* f"{base_slug}-{uuid.uuid4().hex[:4]}": the base and the four hex digits.
\* The digits are always the last four characters, after a hyphen, so the pair
\* determines the string and the string the pair.
ShortCode(base, suffix) == [base |-> base, suffix |-> suffix]

\* Recipe.objects.filter(short_code=code).exists()
ShortCodeExists(table, code) == \E id \in DOMAIN table : table[id].short_code = code

\* Recipe names requests submit.  The first two differ but share the slug
\* prefix "pie-on"; the third slugifies to nothing and gets the base "recipe".
NamePieOne == <<"P", "i", "e", " ", "o", "n", "e">>
NamePieOn == <<"p", "i", "e", "-", "-", "O", "N", "#">>
NameDropped == <<"#", "#">>
Names == {NamePieOne, NamePieOn, NameDropped}

\* ------------------------------------------------------------------ tables

NoRows == <<>>

LinkKeys == Users \X RecipeIds
FollowKeys == Users \X Users
ComponentKeys == RecipeIds \X Ingredients

\* filter(...).exists() on a table keyed by the filtered pair.
Exists(table, key) == table[key] > 0

\* A save that stores nothing.
InsertNoRow(table, key) == table

\* Model.objects.create / serializer.save(): one more row under the key.
InsertRow(table, key) == [table EXCEPT ![key] = @ + 1]

\* DeleteRows with the filter on the second column left out: every row of the
\* user goes.
DeleteRowsOfUser(table, key) ==
    [table |-> [k \in DOMAIN table |-> IF k[1] = key[1] THEN 0 ELSE table[k]],
     deleted |-> table[key]]

\* filter(user=..., recipe=...).delete(): every row under the key goes; the
\* number of rows deleted is returned with the table.
DeleteRows(table, key) ==
    [table |-> [table EXCEPT ![key] = 0], deleted |-> table[key]]

\* UniqueConstraint(fields=['user', 'recipe']) / unique_follow: the datastore
\* refuses a state with two rows under one key.
UniqueConstraintHolds(table) == \A key \in DOMAIN table : table[key] <= 1

\* CheckConstraint(check=~Q(user=F('author')), name='prevent_self_follow')
PreventSelfFollowHolds(table) == \A key \in DOMAIN table : key[1] = key[2] => table[key] = 0

\* The outcome of a handler on one table: the table afterwards and the response.
Outcome(table, resp) == [table |-> table, response |-> resp]

\* --------------------------------------------- favorite / shopping cart

\* UniqueTogetherValidator left out of Meta.validators: every pair passes.
NoUniqueTogetherValidator(table, key) == TRUE

\* UniqueTogetherValidator(queryset=Model.objects.all(), fields=('user', 'recipe'))
UniqueTogetherValidator(table, key) == ~Exists(table, key)

\* serializer.save() under the table's uniqueness constraint: the insert is
\* refused (IntegrityError, answered 500) when it would leave two rows.
SaveLink(table, key) ==
    IF UniqueConstraintHolds(InsertRow(table, key))
    THEN Outcome(InsertRow(table, key), Response(201, "created"))
    ELSE Outcome(table, Response(500, "IntegrityError"))

\* RecipeAPIViewSet._manage_recipe_action for one model (table), with the
\* message of its serializer's validator and the view's error_msg.
manage_recipe_action(table, method, user, recipe_id, unique_msg, error_msg) ==
    IF recipe_id \notin DOMAIN recipes
    THEN Outcome(table, Response(404, "Not found"))
    ELSE IF method = "POST"
    THEN IF ~UniqueTogetherValidator(table, <<user, recipe_id>>)
         THEN Outcome(table, Response(400, unique_msg))
         ELSE SaveLink(table, <<user, recipe_id>>)
    ELSE LET done == DeleteRows(table, <<user, recipe_id>>)
         IN IF done.deleted = 0
            THEN Outcome(table, Response(400, error_msg))
            ELSE Outcome(done.table, Response(204, "no content"))

favorite_action(method, user, pk) ==
    LET out == manage_recipe_action(favorites, method, user, pk,
                   "Recipe already in favorites", "Recipe not found in favorites")
    IN /\ favorites' = out.table
       /\ response' = out.response
       /\ request' = Request("favorite", method, user, pk)
       /\ UNCHANGED <<ingredient_table, users,
                      recipes, next_id, recipe_ingredients, shopping_carts,
                      follows, workers>>

\* A shopping-cart handler that also drops the recipe from the user's
\* favorites.
shopping_cart_action_unfavorites(method, user, pk) ==
    LET out == manage_recipe_action(shopping_carts, method, user, pk,
                   "Recipe already in shopping cart", "Recipe not found in shopping cart")
    IN /\ shopping_carts' = out.table
       /\ favorites' = [favorites EXCEPT ![<<user, pk>>] = 0]
       /\ response' = out.response
       /\ request' = Request("shopping_cart", method, user, pk)
       /\ UNCHANGED <<ingredient_table, users,
                      recipes, next_id, recipe_ingredients,
                      follows, workers>>

\* RecipeAPIViewSet.shopping_cart_action
shopping_cart_action(method, user, pk) ==
    LET out == manage_recipe_action(shopping_carts, method, user, pk,
                   "Recipe already in shopping cart", "Recipe not found in shopping cart")
    IN /\ shopping_carts' = out.table
       /\ response' = out.response
       /\ request' = Request("shopping_cart", method, user, pk)
       /\ UNCHANGED <<ingredient_table, users,
                      recipes, next_id, recipe_ingredients, favorites,
                      follows, workers>>

\* ------------------------------------------------------------------ follow

\* validate_subscription without its comparison: every pair passes.
validate_subscription_unchecked(user, author) == TRUE

\* FollowCreateSerializer.validate_subscription
validate_subscription(user, author) == user # author

\* FollowCreateSerializer.is_valid: the class validators run first (the
\* UniqueTogetherValidator), then validate().  "" when the data is valid.
FollowCreateErrors(table, user, author) ==
    IF ~UniqueTogetherValidator(table, <<user, author>>)
    THEN "You are already subscribed to this author"
    ELSE IF ~validate_subscription(user, author)
    THEN "Cannot subscribe to yourself"
    ELSE ""

\* serializer.save() under Follow.Meta.constraints.
SaveFollow(table, key) ==
    LET saved == InsertRow(table, key)
    IN IF UniqueConstraintHolds(saved) /\ PreventSelfFollowHolds(saved)
       THEN Outcome(saved, Response(201, "created"))
       ELSE Outcome(table, Response(500, "IntegrityError"))

\* CustomUserViewSet._create_follow
create_follow(table, follower, following) ==
    LET error == FollowCreateErrors(table, follower, following)
    IN IF error # ""
       THEN Outcome(table, Response(400, error))
       ELSE SaveFollow(table, <<follower, following>>)

\* CustomUserViewSet._remove_follow
remove_follow(table, follower, following) ==
    LET done == DeleteRows(table, <<follower, following>>)
    IN IF done.deleted = 0
       THEN Outcome(table, Response(400, "Subscription not found"))
       ELSE Outcome(done.table, Response(204, "no content"))

\* CustomUserViewSet.follow
follow(method, follower, id) ==
    LET out == IF id \notin users
               THEN Outcome(follows, Response(404, "Not found"))
               ELSE IF method = "POST"
               THEN create_follow(follows, follower, id)
               ELSE remove_follow(follows, follower, id)
    IN /\ follows' = out.table
       /\ response' = out.response
       /\ request' = Request("follow", method, follower, id)
       /\ UNCHANGED <<ingredient_table, users,
                      recipes, next_id, recipe_ingredients, favorites,
                      shopping_carts, workers>>

\* ------------------------------------------------------ recipe ingredients

\* One item of the "ingredients" list of a recipe request.
Component(id, amount) == [id |-> id, amount |-> amount]

\* The body of a recipe create/update request, as far as the model follows it:
\* the name and the ingredient list (which a request may leave out).
RecipeData(name, has_ingredients, ingredients) ==
    [name |-> name, has_ingredients |-> has_ingredients, ingredients |-> ingredients]

RECURSIVE AmountsOf(_, _)
\* The amounts the list gives for one ingredient, in list order.
AmountsOf(components, ingredient) ==
    IF components = <<>> THEN <<>>
    ELSE (IF Head(components).id = ingredient
          THEN <<Head(components).amount>> ELSE <<>>)
         \o AmountsOf(Tail(components), ingredient)

\* IngredientHandlingMixin._add_components: bulk_create of one row per item.
add_components(table, recipe, components) ==
    [key \in DOMAIN table |->
        IF key[1] = recipe
        THEN table[key] \o AmountsOf(components, key[2])
        ELSE table[key]]

\* delete_components with the delete left out: the old rows stay.
delete_no_components(table, recipe) == table

\* RecipeIngredient.objects.filter(recipe=instance).delete()
delete_components(table, recipe) ==
    [key \in DOMAIN table |-> IF key[1] = recipe THEN NoRows ELSE table[key]]

\* UniqueConstraint(fields=['recipe', 'ingredient'], name='unique_ingredient_per_recipe')
UniqueIngredientPerRecipe(table) == \A key \in DOMAIN table : Len(table[key]) <= 1

\* amount = models.PositiveSmallIntegerField: what a backend that enforces the
\* column's range accepts.
AmountsInColumnRange(table) ==
    \A key \in DOMAIN table : \A i \in DOMAIN table[key] :
        table[key][i] >= 0 /\ table[key][i] <= SmallIntMax

\* Whether the datastore accepts the RecipeIngredient table.  A backend may or
\* may not enforce the small-integer range (enforces_range).
ComponentsAccepted(table, enforces_range) ==
    /\ UniqueIngredientPerRecipe(table)
    /\ enforces_range => AmountsInColumnRange(table)

\* What the datastore may do with the amounts of a list: a backend enforces the
\* column's range or does not, which shows only when an amount is outside it.
RangeEnforcement(components) ==
    IF \A k \in DOMAIN components :
          components[k].amount >= 0 /\ components[k].amount <= SmallIntMax
    THEN {TRUE}
    ELSE BOOLEAN

\* RecipeIngredientCreateSerializer.validate_amount
validate_amount(value) == value >= MinAmount

\* validate_ingredients without its first check: an empty or missing list
\* passes.
validate_ingredients_unique_only(present, components) ==
    IF present /\ Cardinality({components[i].id : i \in DOMAIN components}) # Len(components)
    THEN "Ingredients must be unique"
    ELSE ""

\* validate_ingredients without the comparison of len(ids) and len(set(ids)).
validate_ingredients_nonempty(present, components) ==
    IF ~present \/ components = <<>>
    THEN "At least one ingredient is required"
    ELSE ""

\* IngredientHandlingMixin.validate_ingredients: "" when the list is valid.
\* `present` is false when attrs.get('ingredients') is None.
validate_ingredients(present, components) ==
    IF ~present \/ components = <<>>
    THEN "At least one ingredient is required"
    ELSE IF Cardinality({components[i].id : i \in DOMAIN components}) # Len(components)
    THEN "Ingredients must be unique"
    ELSE ""

\* RecipeCreateUpdateSerializer.is_valid: the fields first (each item's id must
\* name an ingredient, each amount passes validate_amount, a full request must
\* carry the list), then validate().  "" when the data is valid.
RecipeErrors(data, partial) ==
    IF ~data.has_ingredients /\ ~partial
    THEN "This field is required."
    ELSE IF data.has_ingredients
            /\ \E i \in DOMAIN data.ingredients :
                  data.ingredients[i].id \notin StoredIngredients
    THEN "Invalid pk - object does not exist."
    ELSE IF data.has_ingredients
            /\ \E i \in DOMAIN data.ingredients : ~validate_amount(data.ingredients[i].amount)
    THEN "Ingredient quantity must be at least 1"
    ELSE validate_ingredients(data.has_ingredients, data.ingredients)

\* ------------------------------------------------------------ Recipe.save

\* The candidates f"{base_slug}-{uuid.uuid4().hex[:4]}" ranges over.
Candidates(base) == {ShortCode(base, suffix) : suffix \in HexSuffixes}

\* The codes the loop of Recipe.save can end with: it draws a candidate and
\* draws again while a recipe with that code exists, so it ends exactly with a
\* candidate no stored recipe has (and never ends when there is none).
GeneratedShortCodes(table, name) ==
    {code \in Candidates(base_slug(name)) : ~ShortCodeExists(table, code)}

\* ShortCodeUnique for a column declared without unique=True: nothing is refused.
ShortCodeNotConstrained(table) == TRUE

\* short_code = models.SlugField(unique=True): the datastore refuses a second
\* recipe with a code.
ShortCodeUnique(table) ==
    \A a, b \in DOMAIN table : table[a].short_code = table[b].short_code => a = b

\* Recipe.objects.create(**validated_attrs): a new row under the next key.
InsertRecipe(table, id, author, name, code) ==
    (id :> [author |-> author, name |-> name, short_code |-> code]) @@ table

\* An instance.save() that draws a short code from the recipe's name whether
\* or not the recipe has one.
UpdateRecipeFieldsAndCode(table, id, data) ==
    [table EXCEPT ![id].name = data.name,
                  ![id].short_code = ShortCode(base_slug(data.name), 1)]

\* super().update(instance, validated_attrs) and instance.save(): each
\* attribute among the validated ones is set on the instance; short_code is
\* already set, so save keeps it.
UpdateRecipeFields(table, id, data) ==
    [table EXCEPT ![id].name = data.name,
                  ![id].author = IF "author" \in DOMAIN data THEN data.author ELSE @,
                  ![id].short_code = IF "short_code" \in DOMAIN data
                                     THEN data.short_code ELSE @]

\* ------------------------------------------------- recipe create / update

\* RecipeAPIViewSet.create -> perform_create -> RecipeCreateUpdateSerializer.create,
\* handled as one step: the request is validated, then, inside the atomic
\* block, the recipe is saved under a generated short code and its ingredient
\* rows are inserted.  When the datastore refuses a statement the block is
\* rolled back and the request is answered 500.
create_recipe(user, data) ==
    /\ next_id <= MaxRecipes
    /\ request' = Request("recipes", "POST", user, next_id)
    /\ UNCHANGED <<ingredient_table, users, favorites, shopping_carts, follows, workers>>
    /\ LET error == RecipeErrors(data, FALSE)
       IN IF error # ""
          THEN /\ response' = Response(400, error)
               /\ UNCHANGED <<recipes, next_id, recipe_ingredients>>
          ELSE \E code \in GeneratedShortCodes(recipes, data.name),
                  enforces_range \in RangeEnforcement(data.ingredients) :
                  LET inserted == InsertRecipe(recipes, next_id, user, data.name, code)
                      added == add_components(recipe_ingredients, next_id,
                                              data.ingredients)
                  IN IF ShortCodeUnique(inserted)
                        /\ ComponentsAccepted(added, enforces_range)
                     THEN /\ recipes' = inserted
                          /\ recipe_ingredients' = added
                          /\ next_id' = next_id + 1
                          /\ response' = Response(201, "created")
                     ELSE /\ response' = Response(500, "database error")
                          /\ UNCHANGED <<recipes, next_id, recipe_ingredients>>

\* permissions.SAFE_METHODS
SAFE_METHODS == {"GET", "HEAD", "OPTIONS"}

\* has_object_permission of a permission class that lets every caller through.
AllowAnyObject(method, obj, user) == TRUE

\* IsAuthorOrReadOnly.has_object_permission
has_object_permission(method, obj, user) ==
    IF method \in SAFE_METHODS THEN TRUE ELSE obj.author = user

\* RecipeAPIViewSet.update / partial_update -> RecipeCreateUpdateSerializer.update,
\* handled as one step: get_object (404), IsAuthorOrReadOnly (403), validation
\* (400), then, inside the atomic block, the old rows are deleted, the new
\* ones inserted and the recipe's fields saved.
update_recipe(user, id, data, partial) ==
    /\ request' = Request("recipes", IF partial THEN "PATCH" ELSE "PUT", user, id)
    /\ UNCHANGED <<ingredient_table, users,
                   next_id, favorites, shopping_carts, follows, workers>>
    /\ IF id \notin DOMAIN recipes
       THEN /\ response' = Response(404, "Not found")
            /\ UNCHANGED <<recipes, recipe_ingredients>>
       ELSE IF ~has_object_permission(IF partial THEN "PATCH" ELSE "PUT",
                                      recipes[id], user)
       THEN /\ response' = Response(403, "Forbidden")
            /\ UNCHANGED <<recipes, recipe_ingredients>>
       ELSE LET error == RecipeErrors(data, partial)
            IN IF error # ""
               THEN /\ response' = Response(400, error)
                    /\ UNCHANGED <<recipes, recipe_ingredients>>
               ELSE \E enforces_range \in RangeEnforcement(data.ingredients) :
                       LET deleted == delete_components(recipe_ingredients, id)
                           added == add_components(deleted, id, data.ingredients)
                           saved == UpdateRecipeFields(recipes, id, data)
                       IN IF ComponentsAccepted(added, enforces_range)
                             /\ ShortCodeUnique(saved)
                          THEN /\ recipes' = saved
                               /\ recipe_ingredients' = added
                               /\ response' = Response(200, "ok")
                          ELSE /\ response' = Response(500, "database error")
                               /\ UNCHANGED <<recipes, recipe_ingredients>>

\* --------------------------------------- recipe requests, statement by statement

\* The same two handlers followed one datastore statement at a time, so that
\* other requests can run between the statements.  A worker's writes stay its
\* own until its atomic block commits: other requests read the committed
\* tables (`recipes`, `recipe_ingredients`), the worker reads them overlaid
\* with its own writes.  A worker writes only the rows of its own recipe.

\* AutocommitMode is TransactionAtomic with the decorator left out: every
\* statement is committed as it runs.
AutocommitMode == FALSE

\* @db_transaction.atomic on create and update: the statements of a request
\* commit together or not at all.
TransactionAtomic == TRUE

Workers == {1, 2}

Idle == [pc |-> "idle"]

NoCode == ShortCode(<<>>, 0)
NoRecipe == [author |-> NoSuchUser, name |-> <<>>, short_code |-> NoCode]
NoComponents == [i \in Ingredients |-> NoRows]

\* The RecipeIngredient rows of one recipe, by ingredient.
ComponentsOf(table, id) == [i \in Ingredients |-> table[<<id, i>>]]

\* A request in flight: where it is (pc), what it asked for, the candidate
\* short code, the worker's uncommitted versions of its recipe and of the
\* recipe's ingredient rows, and the committed versions its block started from.
InFlight(pc, op, user, id, data) ==
    [pc |-> pc, op |-> op, user |-> user, id |-> id, data |-> data,
     code |-> NoCode,
     has_recipe |-> FALSE, recipe |-> NoRecipe,
     has_rows |-> FALSE, rows |-> NoComponents,
     old_exists |-> id \in DOMAIN recipes,
     old_recipe |-> IF id \in DOMAIN recipes THEN recipes[id] ELSE NoRecipe,
     old_rows |-> IF id \in RecipeIds THEN ComponentsOf(recipe_ingredients, id)
                  ELSE NoComponents]

Busy(w) == workers[w].pc # "idle"

\* The Recipe table with the worker's uncommitted recipe in it.
WithRecipeOf(table, wk) ==
    IF wk.has_recipe THEN (wk.id :> wk.recipe) @@ table ELSE table

\* The RecipeIngredient table with the worker's uncommitted rows in it.
WithRowsOf(table, wk) ==
    IF wk.has_rows
    THEN [key \in DOMAIN table |->
             IF key[1] = wk.id THEN wk.rows[key[2]] ELSE table[key]]
    ELSE table

\* A statement has run and left the worker in state wk: inside an atomic block
\* the committed tables are untouched, without one the write is committed.
StatementDone(w, wk) ==
    /\ workers' = [workers EXCEPT ![w] = wk]
    /\ IF TransactionAtomic
       THEN UNCHANGED <<recipes, recipe_ingredients>>
       ELSE /\ recipes' = WithRecipeOf(recipes, wk)
            /\ recipe_ingredients' = WithRowsOf(recipe_ingredients, wk)

\* A statement raised: the atomic block is rolled back, which discards the
\* worker's writes, and the request is answered 500.
StatementFailed(w, error) ==
    /\ workers' = [workers EXCEPT ![w] = Idle]
    /\ request' = Request("recipes",
                          IF workers[w].op = "create" THEN "POST" ELSE "PUT",
                          workers[w].user, workers[w].id)
    /\ response' = Response(500, error)
    /\ UNCHANGED <<recipes, recipe_ingredients>>

\* Recipes created or being created: the model stops at MaxRecipes of them.
CreatesInFlight ==
    Cardinality({w \in Workers : Busy(w) /\ workers[w].op = "create"
                                  /\ ~workers[w].has_recipe})

\* POST /recipes/ arrives: the serializer validates it (400) and create()
\* enters its atomic block.
begin_create(w, user, data) ==
    /\ ~Busy(w)
    /\ next_id + CreatesInFlight <= MaxRecipes
    /\ UNCHANGED <<ingredient_table, users, recipes, next_id, recipe_ingredients, favorites,
                   shopping_carts, follows>>
    /\ LET error == RecipeErrors(data, FALSE)
       IN IF error # ""
          THEN /\ request' = Request("recipes", "POST", user, 0)
               /\ response' = Response(400, error)
               /\ UNCHANGED workers
          ELSE /\ workers' = [workers EXCEPT
                                 ![w] = InFlight("generate", "create", user, 0, data)]
               /\ UNCHANGED <<request, response>>

\* Recipe.save: self.short_code = f"{base_slug}-{uuid.uuid4().hex[:4]}".lower(),
\* before the loop and in its body.
generate_short_code(w) ==
    /\ workers[w].pc = "generate"
    /\ \E code \in Candidates(base_slug(workers[w].data.name)) :
          workers' = [workers EXCEPT ![w].code = code, ![w].pc = "check"]
    /\ UNCHANGED <<ingredient_table, users, recipes, next_id, recipe_ingredients, favorites,
                   shopping_carts, follows, request, response>>

\* Recipe.save without the loop: the first candidate is taken as it is.
assume_first_candidate(w) ==
    /\ workers[w].pc = "check"
    /\ workers' = [workers EXCEPT ![w].pc = "insert"]
    /\ UNCHANGED <<ingredient_table, users, recipes, next_id, recipe_ingredients, favorites,
                   shopping_carts, follows, request, response>>

\* Recipe.save: while Recipe.objects.filter(short_code=self.short_code).exists()
check_short_code(w) ==
    /\ workers[w].pc = "check"
    /\ workers' = [workers EXCEPT
                      ![w].pc = IF ShortCodeExists(recipes, workers[w].code)
                                THEN "generate" ELSE "insert"]
    /\ UNCHANGED <<ingredient_table, users, recipes, next_id, recipe_ingredients, favorites,
                   shopping_carts, follows, request, response>>

\* Recipe.save: super().save(), the INSERT.  It waits while another open
\* transaction holds an uncommitted recipe with the same code, and is refused
\* (IntegrityError) when a committed recipe has the code.  The primary key is
\* drawn from the sequence, which no rollback returns.
insert_recipe(w) ==
    LET wk == workers[w]
        row == [author |-> wk.user, name |-> wk.data.name, short_code |-> wk.code]
    IN /\ wk.pc = "insert"
       /\ \A other \in Workers \ {w} :
             (Busy(other) /\ workers[other].has_recipe)
                 => ShortCodeUnique((0 :> row) @@ (1 :> workers[other].recipe))
       /\ UNCHANGED <<ingredient_table, users, favorites, shopping_carts, follows>>
       /\ IF ShortCodeUnique((next_id :> row) @@ recipes)
          THEN /\ StatementDone(w, [wk EXCEPT !.pc = "add_components",
                                               !.id = next_id,
                                               !.has_recipe = TRUE,
                                               !.recipe = row])
               /\ next_id' = next_id + 1
               /\ UNCHANGED <<request, response>>
          ELSE /\ StatementFailed(w, "IntegrityError")
               /\ UNCHANGED next_id

\* PUT or PATCH /recipes/{id}/ arrives: get_object (404), IsAuthorOrReadOnly
\* (403), validation (400); update() enters its atomic block.
begin_update(w, user, id, data, partial) ==
    /\ ~Busy(w)
    /\ \A other \in Workers : Busy(other) => workers[other].id # id
    /\ UNCHANGED <<ingredient_table, users, recipes, next_id, recipe_ingredients, favorites,
                   shopping_carts, follows>>
    /\ LET refused ==
               IF id \notin DOMAIN recipes THEN Response(404, "Not found")
               ELSE IF recipes[id].author # user THEN Response(403, "Forbidden")
               ELSE IF RecipeErrors(data, partial) # ""
               THEN Response(400, RecipeErrors(data, partial))
               ELSE Response(0, "")
       IN IF refused.status # 0
          THEN /\ request' = Request("recipes", IF partial THEN "PATCH" ELSE "PUT",
                                     user, id)
               /\ response' = refused
               /\ UNCHANGED workers
          ELSE /\ workers' = [workers EXCEPT
                                 ![w] = InFlight("delete", "update", user, id, data)]
               /\ UNCHANGED <<request, response>>

\* update: RecipeIngredient.objects.filter(recipe=instance).delete()
delete_old_components(w) ==
    LET wk == workers[w]
        visible == WithRowsOf(recipe_ingredients, wk)
    IN /\ wk.pc = "delete"
       /\ StatementDone(w, [wk EXCEPT
              !.pc = "add_components",
              !.has_rows = TRUE,
              !.rows = ComponentsOf(delete_components(visible, wk.id), wk.id)])
       /\ UNCHANGED <<ingredient_table, users,
                      next_id, favorites, shopping_carts, follows, request, response>>

\* create / update: self._add_components(recipe, components), the bulk INSERT,
\* which the datastore may refuse.
insert_components(w) ==
    LET wk == workers[w]
        visible == WithRowsOf(recipe_ingredients, wk)
        added == add_components(visible, wk.id, wk.data.ingredients)
    IN /\ wk.pc = "add_components"
       /\ UNCHANGED <<ingredient_table, users, next_id, favorites, shopping_carts, follows>>
       /\ \E enforces_range \in RangeEnforcement(wk.data.ingredients) :
             IF ComponentsAccepted(added, enforces_range)
             THEN /\ StatementDone(w, [wk EXCEPT
                         !.pc = IF wk.op = "create" THEN "commit" ELSE "save",
                         !.has_rows = TRUE,
                         !.rows = ComponentsOf(added, wk.id)])
                  /\ UNCHANGED <<request, response>>
             ELSE StatementFailed(w, IF UniqueIngredientPerRecipe(added)
                                     THEN "DataError" ELSE "IntegrityError")

\* update: super().update(instance, validated_attrs), the UPDATE of the
\* recipe's fields, which fails when the datastore does.
save_fields(w) ==
    LET wk == workers[w]
        visible == WithRecipeOf(recipes, wk)
    IN /\ wk.pc = "save"
       /\ UNCHANGED <<ingredient_table, users, next_id, favorites, shopping_carts, follows>>
       /\ \E datastore_up \in BOOLEAN :
             IF datastore_up
             THEN /\ StatementDone(w, [wk EXCEPT
                         !.pc = "commit",
                         !.has_recipe = TRUE,
                         !.recipe = UpdateRecipeFields(visible, wk.id, wk.data)[wk.id]])
                  /\ UNCHANGED <<request, response>>
             ELSE StatementFailed(w, "OperationalError")

\* The atomic block ends: the worker's writes are committed and the request
\* is answered (201 for create, 200 for update).
commit(w) ==
    LET wk == workers[w]
    IN /\ wk.pc = "commit"
       /\ recipes' = WithRecipeOf(recipes, wk)
       /\ recipe_ingredients' = WithRowsOf(recipe_ingredients, wk)
       /\ workers' = [workers EXCEPT ![w] = Idle]
       /\ request' = Request("recipes",
                             IF wk.op = "create" THEN "POST" ELSE "PUT",
                             wk.user, wk.id)
       /\ response' = IF wk.op = "create"
                      THEN Response(201, "created") ELSE Response(200, "ok")
       /\ UNCHANGED <<ingredient_table, users, next_id, favorites, shopping_carts, follows>>

RECURSIVE ComponentRows(_, _)
\* RecipeIngredientSerializer(source='recipe_ingredients', many=True): the
\* rows of a recipe as (id, amount) items, by ingredient.
ComponentRows(components, ingredients) ==
    IF ingredients = {} THEN <<>>
    ELSE LET i == CHOOSE x \in ingredients : \A y \in ingredients : x <= y
             RECURSIVE Items(_)
             Items(amounts) ==
                 IF amounts = <<>> THEN <<>>
                 ELSE <<Component(i, Head(amounts))>> \o Items(Tail(amounts))
         IN Items(components[i]) \o ComponentRows(components, ingredients \ {i})

\* A relation check that leaves out the caller: true when any user has the
\* recipe in the relation.
check_any_user_relation(table, user, id) ==
    \E any \in Users : Exists(table, <<any, id>>)

\* UserRelationCheckMixin._check_user_relation: false for a caller who is
\* not authenticated, else whether the relation has a row of the caller for
\* the recipe.
check_user_relation(table, user, id) ==
    user \in users /\ Exists(table, <<user, id>>)

\* RecipeListSerializer(instance, context={'request': request}).data
RecipeListSerializer(user, id) ==
    [id |-> id,
     author |-> recipes[id].author,
     name |-> recipes[id].name,
     ingredients |-> ComponentRows(ComponentsOf(recipe_ingredients, id), Ingredients),
     is_favorited |-> check_user_relation(favorites, user, id),
     is_in_shopping_cart |-> check_user_relation(shopping_carts, user, id)]

\* RecipeAPIViewSet.retrieve: GET /recipes/{id}/ reads the committed tables.
retrieve_recipe(user, id) ==
    /\ request' = Request("recipes", "GET", user, id)
    /\ response' = IF id \notin DOMAIN recipes
                   THEN Response(404, "Not found")
                   ELSE [status |-> 200, detail |-> "recipe",
                         rows |-> ComponentRows(ComponentsOf(recipe_ingredients, id),
                                                Ingredients),
                         recipe |-> RecipeListSerializer(user, id)]
    /\ UNCHANGED <<ingredient_table, users, recipes, next_id, recipe_ingredients, favorites,
                   shopping_carts, follows, workers>>

\* ----------------------------------------------------- shopping-list export

\* One row of values(name, unit).annotate(total=Sum('amount')).
ShoppingRow(name, unit, total) == [name |-> name, unit |-> unit, total |-> total]

\* The join without its user condition: the RecipeIngredient keys of every
\* recipe that is in some cart.
CartComponentKeysOfAnyUser(user) ==
    {key \in ComponentKeys :
        /\ \E any \in Users : shopping_carts[<<any, key[1]>>] > 0
        /\ recipe_ingredients[key] # NoRows}

\* filter(recipe__shopping_carts__user=user): the RecipeIngredient keys joined
\* to the user's cart rows.  A key joins once per cart row of its recipe.
CartComponentKeys(user) ==
    {key \in ComponentKeys :
        shopping_carts[<<user, key[1]>>] > 0 /\ recipe_ingredients[key] # NoRows}

\* GroupKey with the unit left out of the grouping: rows are merged by name alone.
GroupKeyByNameOnly(ingredient) == <<IngredientName[ingredient], "g">>

\* The GROUP BY columns: values(name=F('ingredient__name'),
\* unit=F('ingredient__measurement_unit')) and the order_by column.
GroupKey(ingredient) == <<IngredientName[ingredient], IngredientUnit[ingredient]>>

\* Sum('amount') over the joined rows of one group.
GroupTotal(user, group) ==
    LET keys == {key \in CartComponentKeys(user) : GroupKey(key[2]) = group}
    IN SumOver(keys, [key \in keys |->
           SumSeq(recipe_ingredients[key]) * shopping_carts[<<user, key[1]>>]])

\* The rows of the aggregation, before ordering.
AggregatedRows(user) ==
    {ShoppingRow(group[1], group[2], GroupTotal(user, group)) :
        group \in {GroupKey(key[2]) : key \in CartComponentKeys(user)}}

RECURSIVE OrderedByPrimaryKey(_)
\* OrderedByName without the order_by: the rows come in the order of the
\* ingredients' primary keys (the catalog's ids run against its names).
OrderedByPrimaryKey(rows) ==
    IF rows = {} THEN {<<>>}
    ELSE LET IdOf(r) == CHOOSE i \in Ingredients :
                            IngredientName[i] = r.name /\ IngredientUnit[i] = r.unit
         IN UNION {{<<first>> \o rest : rest \in OrderedByPrimaryKey(rows \ {first})} :
                   first \in {r \in rows : \A other \in rows : IdOf(r) <= IdOf(other)}}

RECURSIVE OrderedByName(_)
\* order_by('ingredient__name'): every sequence of the rows in ascending order
\* of name.  Rows of equal name come in an order the datastore chooses.
OrderedByName(rows) ==
    IF rows = {} THEN {<<>>}
    ELSE UNION {{<<first>> \o rest : rest \in OrderedByName(rows \ {first})} :
                first \in {r \in rows : \A other \in rows : r.name <= other.name}}

\* One line of a text document or one paragraph of a PDF document: what it
\* is, and the user or the ingredient name, unit and total written in it.
Line(kind, user, name, unit, total) ==
    [kind |-> kind, user |-> user, name |-> name, unit |-> unit, total |-> total]

\* The characters of the decimal digits, by value.
DigitChars == <<"0", "1", "2", "3", "4", "5", "6", "7", "8", "9">>

RECURSIVE DecimalDigits(_)
\* str() of a non-negative int: its decimal digits, most significant first.
DecimalDigits(n) ==
    IF n < 10 THEN <<DigitChars[n + 1]>>
    ELSE DecimalDigits(n \div 10) \o <<DigitChars[(n % 10) + 1]>>

\* FormatTotal for a total that is a float: the digits, a point and a zero.
FormatTotalAsFloat(total) == DecimalDigits(total) \o <<".", "0">>

\* f"{item['total']}": the total of a row as it is written in a document.
FormatTotal(total) == DecimalDigits(total)

RECURSIVE TextLines(_)
\* for item in components: lines.append(f"{name} ({unit}) — {total}")
TextLines(components) ==
    IF components = <<>> THEN <<>>
    ELSE LET item == Head(components)
         IN <<Line("item", "", item.name, item.unit, FormatTotal(item.total))>>
                \o TextLines(Tail(components))

RECURSIVE PdfParagraphs(_)
\* for item in components: the item's paragraph, then a "<br/>" paragraph.
PdfParagraphs(components) ==
    IF components = <<>> THEN <<>>
    ELSE LET item == Head(components)
         IN <<Line("item", "", item.name, item.unit, FormatTotal(item.total)),
              Line("break", "", 0, "", <<>>)>>
                \o PdfParagraphs(Tail(components))

\* generate_text_shopping_list: a header naming the user, a rule, one line
\* per item in the order given; the attachment's file name.  `rows` keeps the
\* sequence the renderer was given.
generate_text_shopping_list(components, user) ==
    [status |-> 200, detail |-> "shopping_list.txt", rows |-> components,
     content_type |-> "text/plain",
     body |-> <<Line("header", user, 0, "", <<>>), Line("rule", "", 0, "", <<>>)>>
                  \o TextLines(components)]

\* generate_pdf_shopping_list: a title naming the user, then the paragraphs
\* of the items in the order given; the attachment's file name.
generate_pdf_shopping_list(components, user) ==
    [status |-> 200, detail |-> "shopping_list.pdf", rows |-> components,
     content_type |-> "application/pdf",
     body |-> <<Line("title", user, 0, "", <<>>)>> \o PdfParagraphs(components)]

\* The values of the `format` query parameter; "absent" is a request without it.
Formats == {"txt", "pdf", "csv", "absent"}

\* ExportFormat with 'txt' as the default of the parameter.
ExportFormatDefaultTxt(format) == IF format = "absent" THEN "txt" ELSE format

\* request.query_params.get('format', 'pdf')
ExportFormat(format) == IF format = "absent" THEN "pdf" ELSE format

\* The project's settings decide whether a request with a `format` parameter
\* reaches the view; the endpoint accepts the parameter as its selector.
AcceptsFormatSelector(format) == TRUE

\* export_shopping_list without its `if not ingredients` branch: an empty
\* aggregation is handed to the renderer like any other.
export_without_empty_check(user, format) ==
    /\ request' = Request("download_shopping_cart", "GET", user, format)
    /\ \E ingredients \in OrderedByName(AggregatedRows(user)) :
          response' = IF ExportFormat(format) = "txt"
                      THEN generate_text_shopping_list(ingredients, user)
                      ELSE generate_pdf_shopping_list(ingredients, user)
    /\ UNCHANGED <<ingredient_table, users, recipes, next_id, recipe_ingredients,
                   favorites, shopping_carts, follows, workers>>

\* export_shopping_list with the cart emptied once the list is produced.
export_and_clear_cart(user, format) ==
    /\ request' = Request("download_shopping_cart", "GET", user, format)
    /\ \E ingredients \in OrderedByName(AggregatedRows(user)) :
          response' = IF ingredients = <<>>
                      THEN Response(200, "Shopping list is empty")
                      ELSE IF ExportFormat(format) = "txt"
                      THEN generate_text_shopping_list(ingredients, user)
                      ELSE generate_pdf_shopping_list(ingredients, user)
    /\ shopping_carts' = [key \in DOMAIN shopping_carts |->
                             IF key[1] = user THEN 0 ELSE shopping_carts[key]]
    /\ UNCHANGED <<ingredient_table, users, recipes, next_id, recipe_ingredients,
                   favorites, follows, workers>>

\* RecipeAPIViewSet.export_shopping_list
export_shopping_list(user, format) ==
    /\ request' = Request("download_shopping_cart", "GET", user, format)
    /\ IF ~AcceptsFormatSelector(format)
       THEN response' = Response(404, "Not found")
       ELSE \E ingredients \in OrderedByName(AggregatedRows(user)) :
               response' = IF ingredients = <<>>
                           THEN Response(200, "Shopping list is empty")
                           ELSE IF ExportFormat(format) = "txt"
                           THEN generate_text_shopping_list(ingredients, user)
                           ELSE generate_pdf_shopping_list(ingredients, user)
    /\ UNCHANGED <<ingredient_table, users, recipes, next_id, recipe_ingredients,
                   favorites, shopping_carts, follows, workers>>

\* ------------------------------------------------------------------- Init

\* The state of a fresh deployment: the users and the ingredient catalog
\* exist, every other table is empty, no request has been made.
Init ==
    /\ recipes = <<>>
    /\ next_id = 1
    /\ recipe_ingredients = [key \in ComponentKeys |-> NoRows]
    /\ favorites = [key \in LinkKeys |-> 0]
    /\ shopping_carts = [key \in LinkKeys |-> 0]
    /\ follows = [key \in FollowKeys |-> 0]
    /\ workers = [w \in Workers |-> Idle]
    /\ request = Request("none", "none", NoSuchUser, 0)
    /\ response = Response(0, "")
    /\ ingredient_table = [i \in Ingredients |-> 1]
    /\ users = Users

\* ----------------------------------------------------------------- inputs

Methods == {"POST", "DELETE"}

\* Ingredient lists of at most MaxComponents items over the given ingredients
\* and amounts (lists naming an ingredient twice included).
ComponentLists(ingredients, amounts) ==
    UNION {[1..n -> {Component(i, a) : i \in ingredients, a \in amounts}] :
           n \in 0..MaxComponents}

\* ------------------------------------------------------- the shopping cart

\* Recipes are created, put into and taken out of carts, and shopping lists
\* are exported.
NextCart ==
    \/ \E ingredients \in ComponentLists(Ingredients, MinAmount..MaxAmount) :
          create_recipe("chef", RecipeData(NamePieOne, TRUE, ingredients))
    \/ \E method \in Methods, user \in Users, pk \in RecipeIds :
          shopping_cart_action(method, user, pk)
    \/ \E user \in Users, format \in Formats :
          export_shopping_list(user, format)

SpecCart == Init /\ [][NextCart]_vars

\* ---------------------------------------------------- one request in flight

\* An amount the serializer accepts (validate_amount checks the minimum only)
\* and a range-enforcing datastore refuses.
OverflowingAmount == SmallIntMax + 1

\* The ingredient lists of the statement-by-statement requests: valid lists
\* over two ingredients, a list with an overflowing amount and a list naming
\* an ingredient twice.
TxnLists ==
    {<<Component(1, MinAmount)>>,
     <<Component(2, MinAmount)>>,
     <<Component(1, MinAmount), Component(2, MinAmount)>>,
     <<Component(1, MinAmount), Component(2, OverflowingAmount)>>,
     <<Component(1, MinAmount), Component(1, MinAmount)>>}

\* One worker creates and updates recipes statement by statement, while
\* recipes are read between its statements.
NextTxn ==
    \/ \E ingredients \in TxnLists :
          \/ begin_create(1, "chef", RecipeData(NamePieOne, TRUE, ingredients))
          \/ \E id \in RecipeIds, name \in {NamePieOne, NameDropped} :
                begin_update(1, "chef", id, RecipeData(name, TRUE, ingredients), FALSE)
    \/ generate_short_code(1)
    \/ check_short_code(1)
    \/ insert_recipe(1)
    \/ delete_old_components(1)
    \/ insert_components(1)
    \/ save_fields(1)
    \/ commit(1)
    \/ \E id \in RecipeIds : retrieve_recipe("baker", id)

SpecTxn == Init /\ [][NextTxn]_vars

\* ------------------------------------------------------ concurrent creations

\* Two workers create recipes at the same time, statement by statement, under
\* names that share the slug prefix "pie-on"; recipes are renamed in between.
NextConcurrent ==
    \/ \E w \in Workers, user \in Users, name \in {NamePieOne, NamePieOn} :
          begin_create(w, user, RecipeData(name, TRUE, <<Component(1, MinAmount)>>))
    \/ \E w \in Workers : generate_short_code(w)
    \/ \E w \in Workers : check_short_code(w)
    \/ \E w \in Workers : insert_recipe(w)
    \/ \E w \in Workers : insert_components(w)
    \/ \E w \in Workers : commit(w)
    \/ \E user \in Users, id \in RecipeIds, name \in {NamePieOn, NameDropped} :
          update_recipe(user, id, RecipeData(name, TRUE, <<Component(1, MinAmount)>>), FALSE)

SpecConcurrent == Init /\ [][NextConcurrent]_vars

\* ------------------------------------------------------- recipes, one by one

\* The ingredient lists of these requests: every list of at most MaxComponents
\* items over two ingredients and the amounts 1..MaxAmount.
RecipeLists == ComponentLists({1, 2}, MinAmount..MaxAmount)

\* Recipes are created and updated (fully or partially, with or without an
\* ingredient list) by either user, one request at a time.
NextRecipes ==
    \/ \E user \in Users, ingredients \in RecipeLists :
          create_recipe(user, RecipeData(NamePieOne, TRUE, ingredients))
    \/ \E user \in Users, id \in RecipeIds, partial \in BOOLEAN :
          \/ \E ingredients \in RecipeLists :
                update_recipe(user, id, RecipeData(NamePieOne, TRUE, ingredients), partial)
          \/ update_recipe(user, id, RecipeData(NamePieOne, FALSE, <<>>), partial)

SpecRecipes == Init /\ [][NextRecipes]_vars

\* ------------------------------------------- favorites, carts and follows

\* Recipes are created, and favorites, cart entries and subscriptions are
\* added and removed, one request at a time.
NextRelations ==
    \/ create_recipe("chef", RecipeData(NamePieOne, TRUE, <<Component(1, MinAmount)>>))
    \/ \E method \in Methods, user \in Users, pk \in RecipeIds :
          favorite_action(method, user, pk)
    \/ \E method \in Methods, user \in Users, pk \in RecipeIds :
          shopping_cart_action(method, user, pk)
    \/ \E method \in Methods, user \in Users, id \in Users \cup {NoSuchUser} :
          follow(method, user, id)

SpecRelations == Init /\ [][NextRelations]_vars

\* The last request was a shopping-list export.  An export changes no table,
\* and every other handler replaces `request`, so in such a state the tables
\* are the ones the export read.
Exported == request.op = "download_shopping_cart"

\* Whether the recipe is in the user's cart.
InCart(user, recipe) == shopping_carts[<<user, recipe>>] > 0

\* The sum of `amount` over the RecipeIngredient rows whose recipe is in the
\* user's cart and whose ingredient is the given one.
CartAmount(user, ingredient) ==
    LET inCart == {r \in RecipeIds : InCart(user, r)}
    IN SumOver(inCart, [r \in inCart |-> SumSeq(recipe_ingredients[<<r, ingredient>>])])

\* The ingredients with a row in some recipe of the user's cart.
CartIngredients(user) ==
    {x \in Ingredients :
        \E r \in RecipeIds : InCart(user, r) /\ recipe_ingredients[<<r, x>>] # NoRows}

\* The positions of the exported rows that are about the ingredient.
RowsAbout(ingredient) ==
    {k \in DOMAIN response.rows :
        /\ response.rows[k].name = IngredientName[ingredient]
        /\ response.rows[k].unit = IngredientUnit[ingredient]}

\* C1: an exported shopping list has, for each ingredient used by a recipe of
\* the user's cart, exactly one row, whose total is the sum of the amounts of
\* that ingredient over the recipes in the cart, and no other row.
C1_TotalsAreSums ==
    Exported =>
        /\ \A x \in Ingredients :
              IF x \in CartIngredients(request.user)
              THEN /\ Cardinality(RowsAbout(x)) = 1
                   /\ \A k \in RowsAbout(x) :
                         response.rows[k].total = CartAmount(request.user, x)
              ELSE RowsAbout(x) = {}
        /\ Len(response.rows) = Cardinality(CartIngredients(request.user))

\* C1 witness: a list was exported from a cart of two recipes that share an
\* ingredient, one of which also uses another ingredient.
C1_Witness ==
    /\ Exported
    /\ Len(response.rows) >= 2
    /\ \E x \in Ingredients : \E r1, r2 \in RecipeIds :
          /\ r1 # r2
          /\ InCart(request.user, r1) /\ InCart(request.user, r2)
          /\ recipe_ingredients[<<r1, x>>] # NoRows
          /\ recipe_ingredients[<<r2, x>>] # NoRows

\* C2: the rows of an exported shopping list are in ascending order of
\* ingredient name.
C2_SortedByName ==
    Exported =>
        \A i, j \in DOMAIN response.rows :
            i < j => response.rows[i].name <= response.rows[j].name

\* C2 witness: a list with rows of two different names was exported.
C2_Witness ==
    /\ Exported
    /\ \E i, j \in DOMAIN response.rows : response.rows[i].name < response.rows[j].name

EmptySignal == Response(200, "Shopping list is empty")

RenderedDocuments == {"shopping_list.txt", "shopping_list.pdf"}

\* C3: an export answers with the empty signal, and with no rendered
\* document, exactly when the user's cart yields no ingredient row.
C3_EmptySignal ==
    Exported =>
        IF CartIngredients(request.user) = {}
        THEN response = EmptySignal
        ELSE response.detail \in RenderedDocuments /\ response.rows # <<>>

\* C3 witness: an export of an empty cart was answered, while recipes exist.
C3_Witness ==
    /\ Exported
    /\ \A r \in RecipeIds : ~InCart(request.user, r)
    /\ DOMAIN recipes # {}
    /\ response = EmptySignal

\* The last request answered was a read of one recipe.
Retrieved == request.op = "recipes" /\ request.method = "GET"

\* What every other request can read of a worker's recipe while the worker's
\* block is open: the recipe and the ingredient rows as they were when the
\* block began (for a create: no recipe and no rows).
UntouchedBy(w) ==
    LET wk == workers[w]
    IN wk.id \in RecipeIds =>
          /\ (wk.id \in DOMAIN recipes) = wk.old_exists
          /\ wk.old_exists => recipes[wk.id] = wk.old_recipe
          /\ ComponentsOf(recipe_ingredients, wk.id) = wk.old_rows

\* No request reads a partial write: while a block is open the committed
\* tables hold what they held when it began, and a recipe that is read always
\* comes with ingredient rows.
C9_NoPartialWrite ==
    /\ \A w \in Workers : Busy(w) => UntouchedBy(w)
    /\ (Retrieved /\ response.status = 200) => response.rows # <<>>

\* A step in which an open block ends with the answer 500 leaves the Recipe and
\* RecipeIngredient tables as they were.
C9_RolledBack ==
    \A w \in Workers :
        (Busy(w) /\ workers'[w].pc = "idle" /\ response'.status = 500)
            => /\ recipes' = recipes
               /\ recipe_ingredients' = recipe_ingredients

\* C9: recipe create and update are all-or-nothing.  While a create or update
\* is between its statements every reader sees the recipe as it was before
\* the request (after the old rows were deleted: still the old rows), and a
\* request that fails half-way leaves the recipe and its rows as they were
\* (a failed create: neither a recipe nor rows).
C9_AllOrNothing == [][C9_NoPartialWrite' /\ C9_RolledBack]_vars

\* C9 witness: an update failed after its old rows were deleted (its answer is
\* 500), and the recipe still has ingredient rows.
C9_Witness ==
    /\ request.op = "recipes" /\ request.method = "PUT"
    /\ response.status = 500
    /\ request.target \in DOMAIN recipes
    /\ ComponentsOf(recipe_ingredients, request.target) # NoComponents

\* C4: no two stored recipes have the same short code, whatever recipes were
\* created (also at the same time, also under names with one slug prefix) and
\* renamed.
C4_ShortCodesDistinct ==
    \A a, b \in DOMAIN recipes :
        a # b => recipes[a].short_code # recipes[b].short_code

\* C4 witness: two recipes with different names are stored whose short codes
\* have the same base.
C4_Witness ==
    \E a, b \in DOMAIN recipes :
        /\ a # b
        /\ recipes[a].name # recipes[b].name
        /\ recipes[a].short_code.base = recipes[b].short_code.base
        /\ base_slug(recipes[a].name) = base_slug(recipes[b].name)

\* C10: a recipe creation that loses the race for a short code is not answered
\* with a failure: no creation ends in the uniqueness constraint's
\* IntegrityError (it would draw a new candidate and succeed).
C10_LoserRetries ==
    ~(/\ request.op = "recipes" /\ request.method = "POST"
      /\ response = Response(500, "IntegrityError"))

\* The rows an ingredient list asks for, by ingredient (for a list that names
\* no ingredient twice).
RowsAskedFor(ingredients) ==
    [i \in Ingredients |->
        IF \E k \in DOMAIN ingredients : ingredients[k].id = i
        THEN <<ingredients[CHOOSE k \in DOMAIN ingredients : ingredients[k].id = i].amount>>
        ELSE NoRows]

\* C5: a step that is a successful update of a recipe with an ingredient list
\* leaves the recipe with exactly the rows of that list: one row with the
\* submitted amount for each ingredient of the list, none for any other
\* ingredient; the rows of the other recipes stay.
C5_UpdateReplacesList ==
    [][(/\ request'.op = "recipes" /\ request'.method \in {"PUT", "PATCH"}
        /\ response'.status = 200)
       => \A ingredients \in RecipeLists :
             update_recipe(request'.user, request'.target,
                           RecipeData(NamePieOne, TRUE, ingredients),
                           request'.method = "PATCH")
             => /\ ComponentsOf(recipe_ingredients', request'.target)
                      = RowsAskedFor(ingredients)
                /\ \A other \in RecipeIds \ {request'.target} :
                      ComponentsOf(recipe_ingredients', other)
                          = ComponentsOf(recipe_ingredients, other)]_vars

\* C5 witness: an update has succeeded and left its recipe with a single row.
C5_Witness ==
    /\ request.op = "recipes" /\ request.method \in {"PUT", "PATCH"}
    /\ response.status = 200
    /\ Cardinality({i \in Ingredients :
                       recipe_ingredients[<<request.target, i>>] # NoRows}) = 1

\* The step answers an add or a remove on one of the three relations.
Toggled(op, method) == request'.op = op /\ request'.method = method

\* The pair a toggle request addresses.
Pair(req) == <<req.user, req.target>>

\* C6: an add on the favorite, shopping-cart or follow relation for a pair
\* that is present is answered with the relation's "already" error, and the
\* relation is left as it was.
C6_AddPresentConflicts ==
    [][/\ (Toggled("favorite", "POST") /\ request'.target \in DOMAIN recipes
             /\ favorites[Pair(request')] > 0)
          => /\ response' = Response(400, "Recipe already in favorites")
             /\ favorites' = favorites
       /\ (Toggled("shopping_cart", "POST") /\ request'.target \in DOMAIN recipes
             /\ shopping_carts[Pair(request')] > 0)
          => /\ response' = Response(400, "Recipe already in shopping cart")
             /\ shopping_carts' = shopping_carts
       /\ (Toggled("follow", "POST") /\ request'.target \in Users
             /\ follows[Pair(request')] > 0)
          => /\ response' = Response(400, "You are already subscribed to this author")
             /\ follows' = follows]_vars

\* C6 witness: a favorite was added twice, and the second add was refused.
C6_Witness ==
    /\ request.op = "favorite" /\ request.method = "POST"
    /\ response = Response(400, "Recipe already in favorites")
    /\ favorites[Pair(request)] = 1

\* What a remove does to a relation: with the pair absent, the given error and
\* no change; with it present, exactly its one row is deleted.
RemovedFrom(before, after, error) ==
    IF before[Pair(request')] = 0
    THEN /\ response' = Response(400, error)
         /\ after = before
    ELSE /\ before[Pair(request')] = 1
         /\ after = [before EXCEPT ![Pair(request')] = 0]
         /\ response'.status = 204

\* C7: a remove on the favorite, shopping-cart or follow relation is answered
\* with the relation's "not found" error and changes nothing when the pair is
\* absent, and deletes the one record of the pair, and no other, when it is
\* present.
C7_RemoveDeletesOne ==
    [][/\ (Toggled("favorite", "DELETE") /\ request'.target \in DOMAIN recipes)
          => RemovedFrom(favorites, favorites', "Recipe not found in favorites")
       /\ (Toggled("shopping_cart", "DELETE") /\ request'.target \in DOMAIN recipes)
          => RemovedFrom(shopping_carts, shopping_carts',
                         "Recipe not found in shopping cart")
       /\ (Toggled("follow", "DELETE") /\ request'.target \in Users)
          => RemovedFrom(follows, follows', "Subscription not found")]_vars

\* C7 witness: a favorite was removed while the user has another favorite.
C7_Witness ==
    /\ request.op = "favorite" /\ request.method = "DELETE"
    /\ response.status = 204
    /\ favorites[Pair(request)] = 0
    /\ \E pk \in RecipeIds : favorites[<<request.user, pk>>] = 1

\* C8: a follow request of a user for themselves is answered with the
\* validation error and leaves the Follow table as it was, whatever the table
\* holds; no Follow row has user = author.
C8_NoSelfFollow ==
    [][/\ (Toggled("follow", "POST") /\ request'.user = request'.target)
          => /\ response' = Response(400, "Cannot subscribe to yourself")
             /\ follows' = follows
       /\ \A user \in Users : follows'[<<user, user>>] = 0]_vars

\* C8 witness: a self-follow was refused while the user follows someone else.
C8_Witness ==
    /\ request.op = "follow" /\ request.method = "POST"
    /\ request.user = request.target
    /\ response = Response(400, "Cannot subscribe to yourself")
    /\ \E author \in Users : follows[<<request.user, author>>] = 1

\* ---------------------------------------------------------------- short links

\* The fields of Recipe a queryset lookup can name: its columns, its primary
\* key alias and its relations.
RecipeLookupFields ==
    {"id", "pk", "author", "name", "image", "text", "ingredients", "cooking_time",
     "pub_date", "short_code", "recipe_ingredients", "favorites", "shopping_carts"}

\* The keyword resolve_short_link looks recipes up by: Recipe, slug=slug.
LookupKeyword == "slug"

\* The caller of an endpoint that asks for no authentication.
Anonymous == "anonymous"

\* The <slug:slug> path converter: letters, digits, hyphens and underscores.
MatchesSlugConverter(segment) ==
    /\ segment.base # <<>>
    /\ \A k \in DOMAIN segment.base :
          segment.base[k] \in {"p", "i", "e", "o", "n", "r", "c", "_", "-"}

\* Recipe.get_absolute_url: reverse('recipe_detail', kwargs={'pk': self.id})
get_absolute_url(id) == <<"recipe_detail", id>>

\* get_object_or_404(Recipe, <keyword>=value): a keyword that names no field
\* of the model raises FieldError when the query is built; otherwise the rows
\* whose short_code is the value are looked up, and none gives Http404.
get_object_or_404(table, keyword, value) ==
    IF keyword \notin RecipeLookupFields
    THEN [error |-> "FieldError", ids |-> {}]
    ELSE LET found == {id \in DOMAIN table : table[id].short_code = value}
         IN IF found = {}
            THEN [error |-> "Http404", ids |-> {}]
            ELSE [error |-> "", ids |-> found]

\* GET s/<slug:slug>/ -> resolve_short_link.  A segment the converter does not
\* match is answered by the URL resolver; an exception other than Http404
\* leaves the view unhandled.
resolve_short_link(slug) ==
    /\ request' = Request("short_link", "GET", Anonymous, slug)
    /\ IF ~MatchesSlugConverter(slug)
       THEN response' = Response(404, "no URL pattern")
       ELSE LET looked_up == get_object_or_404(recipes, LookupKeyword, slug)
            IN IF looked_up.error = "FieldError"
               THEN response' = Response(500, "FieldError")
               ELSE IF looked_up.error = "Http404"
               THEN response' = Response(404, "Http404")
               ELSE \E id \in looked_up.ids :
                       response' = Response(302, get_absolute_url(id))
    /\ UNCHANGED <<ingredient_table, users, recipes, next_id, recipe_ingredients, favorites,
                   shopping_carts, follows, workers>>

\* A code no recipe is given (its digits are none of the generated ones), a
\* code that is the beginning of a generated one, and a segment the path
\* converter refuses.
UnknownCode == ShortCode(base_slug(NamePieOne), 0)
PartialCode == ShortCode(<<"p", "i", "e">>, 1)
NotASlug == ShortCode(<<"#">>, 1)

\* The path segments requests resolve.
LinkSegments ==
    {ShortCode(base_slug(name), suffix) : name \in Names, suffix \in HexSuffixes}
        \cup {UnknownCode, PartialCode, NotASlug}

\* Recipes are created, with names that share a slug prefix or have none, and
\* short links are resolved.
NextLinks ==
    \/ \E user \in Users, name \in Names :
          create_recipe(user, RecipeData(name, TRUE, <<Component(1, MinAmount)>>))
    \/ \E slug \in LinkSegments : resolve_short_link(slug)

SpecLinks == Init /\ [][NextLinks]_vars

\* C11: when the short code of a stored recipe is resolved, the answer is a
\* redirect to the detail location of the recipe that holds that code.
C11_StoredCodeRedirects ==
    (request.op = "short_link" /\ ShortCodeExists(recipes, request.target))
        => /\ response.status = 302
           /\ \E id \in DOMAIN recipes :
                 /\ recipes[id].short_code = request.target
                 /\ response.detail = get_absolute_url(id)

\* C12: when a code that no stored recipe holds is resolved, the answer is
\* the not-found signal (and so no redirect).
C12_UnknownCodeNotFound ==
    (request.op = "short_link" /\ ~ShortCodeExists(recipes, request.target))
        => response.status = 404

\* ------------------------------------------------------------ recipe ownership

\* instance.delete() on a recipe: the row goes, and with it, by
\* on_delete=CASCADE, the RecipeIngredient, Favorite and ShoppingCart rows
\* that reference it.
DeleteRecipe(table, id) == [other \in DOMAIN table \ {id} |-> table[other]]

\* A RecipeIngredient.recipe declared on_delete=DO_NOTHING: the rows stay.
KeepComponents(table, id) == table

CascadeComponents(table, id) ==
    [key \in DOMAIN table |-> IF key[1] = id THEN NoRows ELSE table[key]]
\* A UserToRecipeLink.recipe declared on_delete=DO_NOTHING: the rows stay.
KeepLinks(table, id) == table

\* UserToRecipeLink.recipe on_delete=CASCADE.
CascadeLinks(table, id) ==
    [key \in DOMAIN table |-> IF key[2] = id THEN 0 ELSE table[key]]

\* RecipeAPIViewSet.destroy (ModelViewSet): get_object (404),
\* IsAuthorOrReadOnly (403), then instance.delete().
destroy_recipe(user, id) ==
    /\ request' = Request("recipes", "DELETE", user, id)
    /\ UNCHANGED <<ingredient_table, users, next_id, follows, workers>>
    /\ IF id \notin DOMAIN recipes
       THEN /\ response' = Response(404, "Not found")
            /\ UNCHANGED <<recipes, recipe_ingredients, favorites, shopping_carts>>
       ELSE IF ~has_object_permission("DELETE", recipes[id], user)
       THEN /\ response' = Response(403, "Forbidden")
            /\ UNCHANGED <<recipes, recipe_ingredients, favorites, shopping_carts>>
       ELSE /\ recipes' = DeleteRecipe(recipes, id)
            /\ recipe_ingredients' = CascadeComponents(recipe_ingredients, id)
            /\ favorites' = CascadeLinks(favorites, id)
            /\ shopping_carts' = CascadeLinks(shopping_carts, id)
            /\ response' = Response(204, "")

\* The ingredient lists of these requests.
OwnershipLists == {<<Component(1, MinAmount)>>, <<Component(2, MaxAmount)>>}

\* Recipes are created, updated, deleted and read, by their author, by another
\* user and (reads) by an anonymous caller; recipes are put in carts.
NextOwnership ==
    \/ \E user \in Users, ingredients \in OwnershipLists :
          create_recipe(user, RecipeData(NamePieOne, TRUE, ingredients))
    \/ \E user \in Users, id \in RecipeIds, ingredients \in OwnershipLists,
          name \in {NamePieOne, NameDropped}, partial \in BOOLEAN :
          update_recipe(user, id, RecipeData(name, TRUE, ingredients), partial)
    \/ \E user \in Users, id \in RecipeIds : destroy_recipe(user, id)
    \/ \E user \in Users \cup {Anonymous}, id \in RecipeIds : retrieve_recipe(user, id)
    \/ \E user \in Users, pk \in RecipeIds : shopping_cart_action("POST", user, pk)

SpecOwnership == Init /\ [][NextOwnership]_vars

\* C13: an update or a delete of a stored recipe asked by a user who is not
\* its author is answered 403 and leaves the recipe table and the ingredient
\* rows as they were; a read of a stored recipe is answered 200 whoever asks.
C13_NonAuthorForbidden ==
    [][/\ (/\ request'.op = "recipes"
           /\ request'.method \in {"PUT", "PATCH", "DELETE"}
           /\ request'.target \in DOMAIN recipes
           /\ recipes[request'.target].author # request'.user)
          => /\ response' = Response(403, "Forbidden")
             /\ recipes' = recipes
             /\ recipe_ingredients' = recipe_ingredients
             /\ shopping_carts' = shopping_carts
       /\ (/\ request'.op = "recipes" /\ request'.method = "GET"
           /\ request'.target \in DOMAIN recipes)
          => response'.status = 200]_vars

\* C13 witness: a delete by a non-author was refused, the recipe is stored
\* with its rows and is in a cart.
C13_Witness ==
    /\ request.op = "recipes" /\ request.method = "DELETE"
    /\ response = Response(403, "Forbidden")
    /\ request.target \in DOMAIN recipes
    /\ recipes[request.target].author # request.user
    /\ ComponentsOf(recipe_ingredients, request.target) # NoComponents
    /\ \E user \in Users : shopping_carts[<<user, request.target>>] = 1

\* ------------------------------------------------------ duplicate ingredients

\* The lists of the requests that name an ingredient more than once.
NamesTwice(ingredients) ==
    \E j, k \in DOMAIN ingredients : j # k /\ ingredients[j].id = ingredients[k].id

\* The step is a create or an update that submits the list.
SubmitsList(ingredients) ==
    LET data == RecipeData(NamePieOne, TRUE, ingredients)
    IN IF request'.method = "POST"
       THEN create_recipe(request'.user, data)
       ELSE update_recipe(request'.user, request'.target, data,
                          request'.method = "PATCH")

\* C14: a create, or an update by the author, whose list names an ingredient
\* twice is answered 400 "Ingredients must be unique" and leaves the recipes
\* and the ingredient rows as they were; no recipe has two rows for one
\* ingredient.
C14_DuplicateIngredientRejected ==
    [][/\ (/\ request'.op = "recipes"
           /\ request'.method \in {"POST", "PUT", "PATCH"}
           /\ (request'.method = "POST"
                  \/ (/\ request'.target \in DOMAIN recipes
                      /\ recipes[request'.target].author = request'.user)))
          => \/ /\ response' = Response(400, "Ingredients must be unique")
                /\ recipes' = recipes
                /\ recipe_ingredients' = recipe_ingredients
             \/ \A ingredients \in {list \in RecipeLists : NamesTwice(list)} :
                   ~SubmitsList(ingredients)
       /\ \A key \in ComponentKeys : Len(recipe_ingredients'[key]) <= 1]_vars

\* C14 witness: an update that names an ingredient twice was refused while its
\* recipe keeps its row.
C14_Witness ==
    /\ request.op = "recipes" /\ request.method = "PUT"
    /\ response = Response(400, "Ingredients must be unique")
    /\ request.target \in DOMAIN recipes
    /\ ComponentsOf(recipe_ingredients, request.target) # NoComponents

\* ------------------------------------------------------------- amount bounds

\* The amounts of these requests: below the minimum, the minimum, the model
\* validator's maximum, one more, and one more than the column holds.
BoundaryAmounts ==
    {MinAmount - 1, MinAmount, MaxIngredientAmount, MaxIngredientAmount + 1,
     OverflowingAmount}

\* Recipes are created and updated with one ingredient in a boundary amount.
NextBounds ==
    \/ \E user \in Users, i \in {1, 2}, amount \in BoundaryAmounts :
          create_recipe(user, RecipeData(NamePieOne, TRUE, <<Component(i, amount)>>))
    \/ \E user \in Users, id \in RecipeIds, i \in {1, 2}, amount \in BoundaryAmounts,
          partial \in BOOLEAN :
          update_recipe(user, id, RecipeData(NamePieOne, TRUE, <<Component(i, amount)>>),
                        partial)

SpecBounds == Init /\ [][NextBounds]_vars

\* C15: every stored RecipeIngredient row has an amount of at least 1 and at
\* most 32000.
C15_AmountsWithinBounds ==
    \A key \in ComponentKeys :
        \A k \in DOMAIN recipe_ingredients[key] :
            /\ recipe_ingredients[key][k] >= MinAmount
            /\ recipe_ingredients[key][k] <= MaxIngredientAmount

\* ------------------------------------------------------ referential integrity

\* Ingredient.objects.all().delete(): by on_delete=CASCADE of
\* RecipeIngredient.ingredient, the rows that reference a deleted ingredient
\* are deleted with it.
CascadeIngredients(table, deleted) ==
    [key \in DOMAIN table |-> IF key[2] \in deleted THEN NoRows ELSE table[key]]

\* The entries of an ingredients file, in file order; an entry is named by
\* the key Ingredients gives its (name, measurement_unit) pair, and a file may
\* repeat an entry.
IngredientFiles ==
    {file \in UNION {[1..n -> Ingredients] : n \in 0..3} :
        \A i \in 1..(Len(file) - 1) : file[i] <= file[i + 1]}

\* [Ingredient(name=..., measurement_unit=...) for item in data]: the rows
\* the file asks for, counted per pair.
RowsOfFile(file) ==
    [i \in Ingredients |-> Cardinality({k \in 1..Len(file) : file[k] = i})]

\* An Ingredient table without the unique constraint.
no_unique_together(table) == TRUE

\* Ingredient.Meta.unique_together = ['name', 'measurement_unit'].
unique_together(table) == \A i \in DOMAIN table : table[i] <= 1

\* Ingredient.objects.all().delete() followed by bulk_create(...).  Each of
\* the two statements is committed on its own; bulk_create inserts all its
\* rows or, when the unique constraint refuses one, none.
ReplaceCatalog(file) ==
    /\ recipe_ingredients' = CascadeIngredients(recipe_ingredients, StoredIngredients)
    /\ IF unique_together(RowsOfFile(file))
       THEN /\ ingredient_table' = RowsOfFile(file)
            /\ response' = Response(0, "imported")
       ELSE /\ ingredient_table' = [i \in Ingredients |-> 0]
            /\ response' = Response(1, "CommandError")
    /\ UNCHANGED <<recipes, next_id, favorites, shopping_carts, follows, workers, users>>

\* manage.py import_ingredients (_import_from_json): the stored ingredients
\* are cleared, then the entries of the file are bulk-created.
import_ingredients(file) ==
    /\ request' = Request("import_ingredients", "command", Anonymous, 0)
    /\ ReplaceCatalog(file)

RECURSIVE DeleteRecipes(_, _)
\* Recipe.author on_delete=CASCADE: the recipes of a deleted user, one by one.
DeleteRecipes(tables, ids) ==
    IF ids = {} THEN tables
    ELSE LET id == CHOOSE x \in ids : TRUE
         IN DeleteRecipes(
                [recipes |-> DeleteRecipe(tables.recipes, id),
                 recipe_ingredients |-> CascadeComponents(tables.recipe_ingredients, id),
                 favorites |-> CascadeLinks(tables.favorites, id),
                 shopping_carts |-> CascadeLinks(tables.shopping_carts, id)],
                ids \ {id})

\* UserToRecipeLink.user on_delete=CASCADE.
CascadeUser(table, user) ==
    [key \in DOMAIN table |-> IF key[1] = user THEN 0 ELSE table[key]]

\* Follow.user and Follow.author on_delete=CASCADE.
CascadeFollows(table, user) ==
    [key \in DOMAIN table |->
        IF key[1] = user \/ key[2] = user THEN 0 ELSE table[key]]

\* A user account is deleted (CustomUserViewSet inherits the account
\* deletion of its base viewset): user.delete() with its cascades.
delete_user(user) ==
    /\ user \in users
    /\ request' = Request("users", "DELETE", user, user)
    /\ response' = Response(204, "")
    /\ users' = users \ {user}
    /\ LET owned == {id \in DOMAIN recipes : recipes[id].author = user}
           left == DeleteRecipes([recipes |-> recipes,
                                  recipe_ingredients |-> recipe_ingredients,
                                  favorites |-> favorites,
                                  shopping_carts |-> shopping_carts], owned)
       IN /\ recipes' = left.recipes
          /\ recipe_ingredients' = left.recipe_ingredients
          /\ favorites' = CascadeUser(left.favorites, user)
          /\ shopping_carts' = CascadeUser(left.shopping_carts, user)
    /\ follows' = CascadeFollows(follows, user)
    /\ UNCHANGED <<next_id, workers, ingredient_table>>

\* The ingredient lists of these requests.
IntegrityLists == {<<Component(1, MinAmount)>>,
                   <<Component(2, MinAmount), Component(3, MaxAmount)>>}

\* Stored users create, update and delete recipes and put them in carts;
\* accounts are deleted; the ingredient catalog is imported again.
NextIntegrity ==
    \/ \E user \in users, list \in IntegrityLists :
          create_recipe(user, RecipeData(NamePieOne, TRUE, list))
    \/ \E user \in users, id \in RecipeIds, list \in IntegrityLists :
          update_recipe(user, id, RecipeData(NamePieOne, TRUE, list), FALSE)
    \/ \E user \in users, id \in RecipeIds : destroy_recipe(user, id)
    \/ \E user \in users, pk \in RecipeIds : shopping_cart_action("POST", user, pk)
    \/ \E user \in users : delete_user(user)
    \/ \E file \in IngredientFiles : import_ingredients(file)

SpecIntegrity == Init /\ [][NextIntegrity]_vars

\* C16: every stored RecipeIngredient row references a stored recipe and a
\* stored ingredient.
C16_NoDanglingRows ==
    \A key \in ComponentKeys :
        recipe_ingredients[key] # NoRows
            => key[1] \in DOMAIN recipes /\ key[2] \in StoredIngredients

\* C16 witness: a recipe was deleted while another recipe keeps its rows.
C16_Witness ==
    /\ request.op = "recipes" /\ request.method = "DELETE"
    /\ response.status = 204
    /\ request.target \notin DOMAIN recipes
    /\ \E id \in DOMAIN recipes : ComponentsOf(recipe_ingredients, id) # NoComponents

\* ------------------------------------------- relation adds, statement by statement

\* The relations with an add endpoint, by the name of the endpoint.
Relations == {"favorite", "shopping_cart", "follow"}

\* An add in flight between serializer.is_valid() and serializer.save().
AddInFlight(op, user, target) ==
    [pc |-> "save_link", op |-> op, user |-> user, id |-> target]

\* What is_valid answers for an add on a relation: "" when the data is valid.
AddErrors(op, user, target) ==
    IF op = "favorite"
    THEN IF UniqueTogetherValidator(favorites, <<user, target>>)
         THEN "" ELSE "Recipe already in favorites"
    ELSE IF op = "shopping_cart"
    THEN IF UniqueTogetherValidator(shopping_carts, <<user, target>>)
         THEN "" ELSE "Recipe already in shopping cart"
    ELSE FollowCreateErrors(follows, user, target)

\* POST on favorite / shopping_cart / subscribe arrives: get_object_or_404,
\* then serializer.is_valid(raise_exception=True), which reads the table.
begin_add(w, op, user, target) ==
    /\ ~Busy(w)
    /\ UNCHANGED <<recipes, next_id, recipe_ingredients, favorites, shopping_carts,
                   follows, ingredient_table, users>>
    /\ LET refused ==
               IF op = "follow" /\ target \notin users THEN Response(404, "Not found")
               ELSE IF op # "follow" /\ target \notin DOMAIN recipes
               THEN Response(404, "Not found")
               ELSE IF AddErrors(op, user, target) # ""
               THEN Response(400, AddErrors(op, user, target))
               ELSE Response(0, "")
       IN IF refused.status # 0
          THEN /\ request' = Request(op, "POST", user, target)
               /\ response' = refused
               /\ UNCHANGED workers
          ELSE /\ workers' = [workers EXCEPT ![w] = AddInFlight(op, user, target)]
               /\ UNCHANGED <<request, response>>

\* serializer.save(): the INSERT, in autocommit, under the table's
\* constraints; nothing in the view catches the IntegrityError of a refused one.
save_add(w) ==
    LET wk == workers[w]
        key == <<wk.user, wk.id>>
        out == IF wk.op = "favorite" THEN SaveLink(favorites, key)
               ELSE IF wk.op = "shopping_cart" THEN SaveLink(shopping_carts, key)
               ELSE SaveFollow(follows, key)
    IN /\ wk.pc = "save_link"
       /\ favorites' = IF wk.op = "favorite" THEN out.table ELSE favorites
       /\ shopping_carts' = IF wk.op = "shopping_cart" THEN out.table ELSE shopping_carts
       /\ follows' = IF wk.op = "follow" THEN out.table ELSE follows
       /\ request' = Request(wk.op, "POST", wk.user, wk.id)
       /\ response' = out.response
       /\ workers' = [workers EXCEPT ![w] = Idle]
       /\ UNCHANGED <<recipes, next_id, recipe_ingredients, ingredient_table, users>>

\* Two workers answer adds on the three relations, interleaved statement by
\* statement; a recipe is created for them to point at; rows are removed.
NextAdds ==
    \/ create_recipe("chef", RecipeData(NamePieOne, TRUE, <<Component(1, MinAmount)>>))
    \/ \E w \in Workers :
          \/ \E pk \in RecipeIds : begin_add(w, "favorite", "chef", pk)
          \/ begin_add(w, "shopping_cart", "baker", 1)
          \/ \E id \in Users : begin_add(w, "follow", "chef", id)
    \/ \E w \in Workers : save_add(w)
    \/ favorite_action("DELETE", "chef", 1)

SpecAdds == Init /\ [][NextAdds]_vars

\* C17: each relation holds at most one row per pair, and an add on a stored
\* target is answered with 201 or with the 400 of the relation's validator,
\* also when adds interleave.
C17_RacingAddConflicts ==
    /\ UniqueConstraintHolds(favorites)
    /\ UniqueConstraintHolds(shopping_carts)
    /\ UniqueConstraintHolds(follows)
    /\ (request.op \in Relations /\ request.method = "POST"
           /\ response.status # 404)
          => response.status \in {201, 400}

\* ------------------------------------------------------- export: frame, rendering

\* C18: a step that answers an export leaves the recipes, the ingredient
\* rows, the carts, the favorites and the follows as they were.
C18_ExportIsPureRead ==
    [][request'.op = "download_shopping_cart"
       => /\ recipes' = recipes
          /\ recipe_ingredients' = recipe_ingredients
          /\ shopping_carts' = shopping_carts
          /\ favorites' = favorites
          /\ follows' = follows]_vars

\* C18 witness: a document was exported and the recipes of the list are
\* still in the user's cart.
C18_Witness ==
    /\ Exported
    /\ response.detail \in RenderedDocuments
    /\ \E r \in RecipeIds : InCart(request.user, r)

\* The value of a digit character.
DigitValue(c) == (CHOOSE i \in DOMAIN DigitChars : DigitChars[i] = c) - 1

RECURSIVE ParseDecimal(_)
\* The number a sequence of decimal digits writes.
ParseDecimal(digits) ==
    IF digits = <<>> THEN 0
    ELSE ParseDecimal(SubSeq(digits, 1, Len(digits) - 1)) * 10
             + DigitValue(digits[Len(digits)])

\* The amounts of the recipes whose lists are rendered: totals of one, two
\* and three digits come of them.
RenderAmounts == {MinAmount, 9, 105}

\* Recipes with one or two ingredients in these amounts are created, put in
\* carts and taken out, and the lists are exported as text and as PDF.
NextRender ==
    \/ \E i \in Ingredients, amount \in RenderAmounts :
          \/ create_recipe("chef", RecipeData(NamePieOne, TRUE, <<Component(i, amount)>>))
          \/ create_recipe("chef", RecipeData(NamePieOne, TRUE,
                 <<Component(i, amount), Component(1 + (i % 3), MinAmount)>>))
    \/ \E method \in Methods, pk \in RecipeIds :
          shopping_cart_action(method, "baker", pk)
    \/ \E format \in {"txt", "pdf"} : export_shopping_list("baker", format)

SpecRender == Init /\ [][NextRender]_vars

\* The ingredient lines of a rendered document, in the document's order.
ItemLines(body) == SelectSeq(body, LAMBDA line : line.kind = "item")

\* C19: a rendered document, text or PDF, has one ingredient line per
\* aggregated row, in the order of the rows, and each line carries the name,
\* the unit and the total of its row, the total written in decimal digits only.
C19_RenderersKeepRows ==
    (Exported /\ response.detail \in RenderedDocuments)
        => LET lines == ItemLines(response.body)
           IN /\ Len(lines) = Len(response.rows)
              /\ \A k \in DOMAIN lines :
                    /\ lines[k].name = response.rows[k].name
                    /\ lines[k].unit = response.rows[k].unit
                    /\ \A d \in DOMAIN lines[k].total :
                          \E i \in DOMAIN DigitChars : lines[k].total[d] = DigitChars[i]
                    /\ ParseDecimal(lines[k].total) = response.rows[k].total

\* C19 witness: a PDF of two rows was rendered, one of them with a total of
\* three digits merged from two recipes.
C19_Witness ==
    /\ Exported
    /\ response.detail = "shopping_list.pdf"
    /\ Len(response.rows) >= 2
    /\ \E k \in DOMAIN response.rows : response.rows[k].total = 105 + 9

\* C20: for a cart that yields rows, format=txt gives the text document named
\* shopping_list.txt and an absent format or format=pdf the PDF named
\* shopping_list.pdf, whoever asks.
C20_FormatSelectsRenderer ==
    (Exported /\ CartIngredients(request.user) # {})
        => /\ request.target = "txt"
              => /\ response.detail = "shopping_list.txt"
                 /\ response.content_type = "text/plain"
           /\ request.target \in {"pdf", "absent"}
              => /\ response.detail = "shopping_list.pdf"
                 /\ response.content_type = "application/pdf"

\* C20 witness: baker, who wrote no recipe, exported a text document.
C20_Witness ==
    /\ Exported
    /\ request.user = "baker" /\ request.target = "txt"
    /\ response.detail = "shopping_list.txt"

\* ---------------------------------------------------------------------
\* The ingredient catalog
\* ---------------------------------------------------------------------

\* Ingredient.Meta.ordering = ['name']: the stored ingredients in an order
\* the database may return them in (rows of equal name in either order).
CatalogListings ==
    {rows \in [1..Cardinality(StoredIngredients) -> StoredIngredients] :
        /\ \A i, j \in DOMAIN rows : i # j => rows[i] # rows[j]
        /\ \A i, j \in DOMAIN rows :
              i < j => IngredientName[rows[i]] <= IngredientName[rows[j]]}

\* IngredientAPIViewSet is a ReadOnlyModelViewSet: it has the list and
\* retrieve handlers only, so any other method is answered 405.
ingredients_endpoint(method, user) ==
    /\ request' = Request("ingredients", method, user, 0)
    /\ IF method \in SAFE_METHODS
       THEN \E rows \in CatalogListings :
               response' = [Response(200, "") EXCEPT !.rows = rows]
       ELSE response' = Response(405, "Method not allowed")
    /\ UNCHANGED <<recipes, next_id, recipe_ingredients, favorites, shopping_carts,
                   follows, workers, ingredient_table, users>>

\* manage.py load_ingredients --path: the stored ingredients are cleared,
\* then the entries of the file are bulk-created.
load_ingredients(file) ==
    /\ request' = Request("load_ingredients", "command", Anonymous, 0)
    /\ ReplaceCatalog(file)

\* The ingredient lists of these requests.
CatalogLists == {<<Component(1, MinAmount)>>,
                 <<Component(2, MinAmount), Component(3, MaxAmount)>>}

\* Every kind of API request, and the import command.
NextCatalog ==
    \/ \E list \in CatalogLists :
          create_recipe("chef", RecipeData(NamePieOne, TRUE, list))
    \/ \E id \in RecipeIds, list \in CatalogLists :
          update_recipe("chef", id, RecipeData(NamePieOne, TRUE, list), FALSE)
    \/ \E id \in RecipeIds : destroy_recipe("chef", id)
    \/ \E method \in Methods : favorite_action(method, "baker", 1)
    \/ \E method \in Methods : shopping_cart_action(method, "chef", 1)
    \/ \E method \in Methods : follow(method, "baker", "chef")
    \/ \E format \in Formats : export_shopping_list("chef", format)
    \/ \E method \in {"GET", "POST", "PUT", "DELETE"} :
          ingredients_endpoint(method, "chef")
    \/ \E file \in IngredientFiles : load_ingredients(file)

SpecCatalog == Init /\ [][NextCatalog]_vars

\* C21: no two stored ingredients share a (name, measurement_unit) pair, also
\* after an import, and no API request adds, changes or removes an
\* ingredient: only the import command changes the catalog.
C21_CatalogReadOnly ==
    /\ [](\A i \in Ingredients : ingredient_table[i] <= 1)
    /\ [][request'.op # "load_ingredients"
            => ingredient_table' = ingredient_table]_vars

\* C21 witness: after an import that left out an ingredient, a recipe was
\* created from the ingredients that are stored.
C21_Witness ==
    /\ request.op = "recipes" /\ request.method = "POST"
    /\ response.status = 201
    /\ ingredient_table[3] = 0
    /\ StoredIngredients # {}

\* ---------------------------------------------------------------------
\* The loop of Recipe.save
\* ---------------------------------------------------------------------

\* The names of the recipes these requests create: the first two share their
\* slug prefix, the third has the fallback prefix.
LoopNames == {NamePieOne, NamePieOn, NameDropped}

\* Recipes are created one request at a time, statement by statement.
NextLoop ==
    \/ \E user \in Users, name \in LoopNames :
          begin_create(1, user, RecipeData(name, TRUE, <<Component(1, MinAmount)>>))
    \/ generate_short_code(1)
    \/ check_short_code(1)
    \/ insert_recipe(1)
    \/ insert_components(1)
    \/ commit(1)

\* A request that has started runs on, and uuid.uuid4() is a fair random
\* choice: when a free code could be drawn again and again, one is drawn.
LoopFairness ==
    /\ WF_vars(check_short_code(1) \/ insert_recipe(1)
                  \/ insert_components(1) \/ commit(1))
    /\ SF_vars(generate_short_code(1)
                  /\ ~ShortCodeExists(recipes, workers'[1].code))

SpecLoop == Init /\ [][NextLoop]_vars /\ LoopFairness

\* C22: a save that is in the loop of Recipe.save while some code with its
\* prefix is free eventually has its recipe saved under a code that no
\* stored recipe has, however often its candidates collide.
C22_LoopFindsFreeCode ==
    (/\ workers[1].pc \in {"generate", "check"}
     /\ GeneratedShortCodes(recipes, workers[1].data.name) # {})
        ~> (/\ workers[1].pc = "add_components"
            /\ workers[1].has_recipe
            /\ workers[1].recipe.short_code
                   \in GeneratedShortCodes(recipes, workers[1].data.name))

\* C22 witness: the candidate drawn was found to be the code of a stored
\* recipe and the loop is about to draw again.
C22_Witness ==
    /\ workers[1].pc = "generate"
    /\ workers[1].code # NoCode
    /\ ShortCodeExists(recipes, workers[1].code)
    /\ GeneratedShortCodes(recipes, workers[1].data.name) # {}

\* ---------------------------------------------------------------------
\* Membership has two states
\* ---------------------------------------------------------------------

\* The favorite, shopping-cart and follow handlers as functions of the
\* relation's table, the method and the (user, target) pair.
FavoriteStep(table, method, key) ==
    manage_recipe_action(table, method, key[1], key[2],
        "Recipe already in favorites", "Recipe not found in favorites")

ShoppingCartStep(table, method, key) ==
    manage_recipe_action(table, method, key[1], key[2],
        "Recipe already in shopping cart", "Recipe not found in shopping cart")

FollowStep(table, method, key) ==
    IF method = "POST" THEN create_follow(table, key[1], key[2])
    ELSE remove_follow(table, key[1], key[2])

\* Add then remove, and remove then add, of each pair, from this table: when
\* the first request succeeds, so does the second, and the table is back.
RoundTrips(Step(_, _, _), table) ==
    \A key \in DOMAIN table :
        LET added == Step(table, "POST", key)
            added_removed == Step(added.table, "DELETE", key)
            removed == Step(table, "DELETE", key)
            removed_added == Step(removed.table, "POST", key)
        IN /\ added.response.status = 201
                => /\ added_removed.response.status = 204
                   /\ added_removed.table = table
           /\ removed.response.status = 204
                => /\ removed_added.response.status = 201
                   /\ removed_added.table = table

\* Each pair of the relation is absent (no row) or present (one row).
TwoStates(table) == \A key \in DOMAIN table : table[key] \in {0, 1}

\* A successful add found the pair absent and made it present; a successful
\* remove found it present and made it absent.
MovesMembership(op, before, after) ==
    /\ (Toggled(op, "POST") /\ response'.status = 201)
          => /\ before[Pair(request')] = 0
             /\ after = [before EXCEPT ![Pair(request')] = 1]
    /\ (Toggled(op, "DELETE") /\ response'.status = 204)
          => /\ before[Pair(request')] = 1
             /\ after = [before EXCEPT ![Pair(request')] = 0]

\* C23: in the favorite, shopping-cart and follow relations every pair is
\* absent or present; a successful add moves its pair from absent to present,
\* a successful remove from present to absent; and add then remove, or remove
\* then add, of a pair gives back the relation as it was.
C23_TwoStateMembership ==
    /\ [](/\ TwoStates(favorites) /\ TwoStates(shopping_carts) /\ TwoStates(follows)
          /\ RoundTrips(FavoriteStep, favorites)
          /\ RoundTrips(ShoppingCartStep, shopping_carts)
          /\ RoundTrips(FollowStep, follows))
    /\ [][/\ MovesMembership("favorite", favorites, favorites')
          /\ MovesMembership("shopping_cart", shopping_carts, shopping_carts')
          /\ MovesMembership("follow", follows, follows')]_vars

\* C23 witness: a subscription was removed again while the one in the other
\* direction stays.
C23_Witness ==
    /\ request.op = "follow" /\ request.method = "DELETE"
    /\ response.status = 204
    /\ follows[Pair(request)] = 0
    /\ follows[<<request.target, request.user>>] = 1
    /\ \E key \in LinkKeys : shopping_carts[key] = 1

\* ---------------------------------------------------------------------
\* What a membership request leaves alone
\* ---------------------------------------------------------------------

\* The relation differs from what it was at most in the pair of the request.
OnlyPairChanged(before, after) ==
    \A key \in DOMAIN before : key # Pair(request') => after[key] = before[key]

\* C24: a favorite, shopping-cart or follow request, answered with success or
\* with an error, changes at most the row count of its own (user, target)
\* pair in its own relation: the other pairs, the other two relations, the
\* recipes and the RecipeIngredient rows stay as they were.
C24_OnlyOwnPairChanges ==
    [][/\ request'.op = "favorite"
          => /\ OnlyPairChanged(favorites, favorites')
             /\ UNCHANGED <<shopping_carts, follows, recipes, recipe_ingredients>>
       /\ request'.op = "shopping_cart"
          => /\ OnlyPairChanged(shopping_carts, shopping_carts')
             /\ UNCHANGED <<favorites, follows, recipes, recipe_ingredients>>
       /\ request'.op = "follow"
          => /\ OnlyPairChanged(follows, follows')
             /\ UNCHANGED <<favorites, shopping_carts, recipes, recipe_ingredients>>]_vars

\* C24 witness: a recipe was put in a cart while the same user has it as a
\* favorite, another cart holds it and a subscription exists.
C24_Witness ==
    /\ request.op = "shopping_cart" /\ request.method = "POST"
    /\ response.status = 201
    /\ shopping_carts[Pair(request)] = 1
    /\ favorites[Pair(request)] = 1
    /\ \E user \in Users \ {request.user} : shopping_carts[<<user, request.target>>] = 1
    /\ \E key \in FollowKeys : follows[key] = 1

\* ---------------------------------------------------------------------
\* Fields a request cannot set
\* ---------------------------------------------------------------------

\* A request body: the recipe's data and the values it carries under the
\* keys `author` and `short_code`.
RecipeBody(name, ingredients, author, short_code) ==
    [name |-> name, has_ingredients |-> TRUE, ingredients |-> ingredients,
     author |-> author, short_code |-> short_code]

\* RecipeCreateUpdateSerializer with a writable author field.
to_internal_value_author_writable(body) ==
    [name |-> body.name, has_ingredients |-> body.has_ingredients,
     ingredients |-> body.ingredients, author |-> body.author]

\* RecipeCreateUpdateSerializer.to_internal_value: the validated attributes
\* are those of the writable fields of Meta.fields; `author` is read-only and
\* `short_code` is not a field, so what the body carries for them is dropped.
to_internal_value(body) ==
    RecipeData(body.name, body.has_ingredients, body.ingredients)

\* A user other than the one who sends the request.
SomeoneElse(user) == CHOOSE other \in Users : other # user

\* The ingredient lists of these requests.
FieldLists == {<<Component(1, MinAmount)>>, <<Component(2, MaxAmount)>>}

\* The bodies a user sends: under `author` another user, under `short_code`
\* a code of the body's name or of another name.
Bodies(user) ==
    {RecipeBody(name, ingredients, SomeoneElse(user), ShortCode(base_slug(other), 1)) :
        name \in {NamePieOne, NameDropped}, other \in {NamePieOne, NameDropped},
        ingredients \in FieldLists}

\* Recipes are created, updated (PUT and PATCH) and deleted.
NextFields ==
    \/ \E user \in Users : \E body \in Bodies(user) :
          create_recipe(user, to_internal_value(body))
    \/ \E user \in Users, id \in RecipeIds, partial \in BOOLEAN :
          \E body \in Bodies(user) :
             update_recipe(user, id, to_internal_value(body), partial)
    \/ \E user \in Users, id \in RecipeIds : destroy_recipe(user, id)

SpecFields == Init /\ [][NextFields]_vars

\* C25: a stored recipe keeps the short code it was created with through
\* every later request, a rename or a new ingredient list included, and
\* while the recipe exists no other recipe has that code; a new recipe's code
\* is made from the name it is created with.
C25_ShortCodeNeverChanges ==
    [][/\ \A id \in DOMAIN recipes \cap DOMAIN recipes' :
             /\ recipes'[id].short_code = recipes[id].short_code
             /\ \A other \in DOMAIN recipes' :
                   recipes'[other].short_code = recipes[id].short_code => other = id
       /\ \A id \in DOMAIN recipes' \ DOMAIN recipes :
             recipes'[id].short_code \in Candidates(base_slug(recipes'[id].name))]_vars

\* C25 witness: a recipe was renamed to a name with another slug prefix and
\* given another ingredient list, and its code is still that of its old name.
C25_Witness ==
    /\ request.op = "recipes" /\ request.method = "PUT"
    /\ response.status = 200
    /\ request.target \in DOMAIN recipes
    /\ recipes[request.target].name = NameDropped
    /\ recipes[request.target].short_code \in Candidates(base_slug(NamePieOne))
    /\ recipe_ingredients[<<request.target, 2>>] # NoRows

\* C26: a new recipe's author is the user who sent the create request, though
\* the body names someone else as author, and no later request, by the author
\* or by anyone else, changes the author of a stored recipe.
C26_AuthorIsCreator ==
    [][/\ \A id \in DOMAIN recipes' \ DOMAIN recipes :
             /\ request'.method = "POST"
             /\ recipes'[id].author = request'.user
       /\ \A id \in DOMAIN recipes \cap DOMAIN recipes' :
             recipes'[id].author = recipes[id].author]_vars

\* C26 witness: a partial update whose body names another user as author was
\* carried out, and the recipe is still its sender's, while the other user
\* has a recipe too.
C26_Witness ==
    /\ request.op = "recipes" /\ request.method = "PATCH"
    /\ response.status = 200
    /\ request.target \in DOMAIN recipes
    /\ recipes[request.target].author = request.user
    /\ \E id \in DOMAIN recipes : recipes[id].author = SomeoneElse(request.user)

\* ---------------------------------------------------------------------
\* Whose data an export reads
\* ---------------------------------------------------------------------

\* The documents export_shopping_list can answer this user with in this
\* state, in either format.
ExportDocuments(user) ==
    {IF ingredients = <<>> THEN Response(200, "Shopping list is empty")
     ELSE IF format = "txt" THEN generate_text_shopping_list(ingredients, user)
     ELSE generate_pdf_shopping_list(ingredients, user) :
        ingredients \in OrderedByName(AggregatedRows(user)), format \in {"txt", "pdf"}}

\* What the claim lets an export depend on: the user's own cart rows and the
\* RecipeIngredient rows of the recipes in that cart.
OwnCartView(user) ==
    [cart |-> [pk \in RecipeIds |-> shopping_carts[<<user, pk>>]],
     rows |-> [key \in ComponentKeys |->
                  IF shopping_carts[<<user, key[1]>>] > 0
                  THEN recipe_ingredients[key] ELSE NoRows]]

\* The ingredient lists of these requests.
ExportLists == {<<Component(1, MinAmount)>>,
                <<Component(1, MaxAmount), Component(3, MinAmount)>>}

\* Recipes are created, updated and deleted by their author; both users fill
\* and empty their carts and export; favorites are marked and a subscription
\* is made.
NextExports ==
    \/ \E list \in ExportLists :
          create_recipe("chef", RecipeData(NamePieOne, TRUE, list))
    \/ \E id \in RecipeIds, list \in ExportLists :
          update_recipe("chef", id, RecipeData(NamePieOne, TRUE, list), FALSE)
    \/ \E id \in RecipeIds : destroy_recipe("chef", id)
    \/ \E method \in Methods, user \in Users, pk \in RecipeIds :
          shopping_cart_action(method, user, pk)
    \/ \E method \in Methods : favorite_action(method, "baker", 1)
    \/ \E method \in Methods : follow(method, "baker", "chef")
    \/ \E user \in Users : export_shopping_list(user, "txt")

SpecExports == Init /\ [][NextExports]_vars

\* C27: the rows a user's export lists are a function of that user's own
\* cart and of the ingredient rows of the recipes in it: a step that leaves
\* these as they were leaves the rows as they were, so no cart, favorite or
\* follow request of another user changes them; and what an export answers is
\* a document made of the rows of the state it reads and of nothing else.
C27_ExportReadsOwnCart ==
    [][/\ \A user \in Users :
             /\ OwnCartView(user)' = OwnCartView(user)
                   => AggregatedRows(user)' = AggregatedRows(user)
             /\ (/\ request'.user # user
                 /\ request'.op \in {"favorite", "shopping_cart", "follow"})
                   => AggregatedRows(user)' = AggregatedRows(user)
       /\ request'.op = "download_shopping_cart"
             => response' \in ExportDocuments(request'.user)]_vars

\* C27 witness: a user put a recipe in their cart that is in another user's
\* cart as well.
C27_Witness ==
    /\ request.op = "shopping_cart" /\ request.method = "POST"
    /\ response.status = 201
    /\ \E other \in Users \ {request.user} :
          /\ shopping_carts[<<other, request.target>>] = 1
          /\ AggregatedRows(other) # {}

\* ---------------------------------------------------------------------
\* What goes with a deleted recipe
\* ---------------------------------------------------------------------

\* The recipes a table of (user, recipe) links refers to.
LinkedRecipes(table) == {key[2] : key \in {k \in DOMAIN table : table[k] > 0}}

\* C28: no favorite, cart entry or RecipeIngredient row refers to a recipe
\* that is not stored, so an export sums rows of stored recipes only; and the
\* step that deletes a recipe is the step in which its favorites, cart
\* entries and ingredient rows go, while those of other recipes stay.
C28_DeleteCascades ==
    /\ [](/\ LinkedRecipes(favorites) \subseteq DOMAIN recipes
          /\ LinkedRecipes(shopping_carts) \subseteq DOMAIN recipes
          /\ \A key \in ComponentKeys :
                recipe_ingredients[key] # NoRows => key[1] \in DOMAIN recipes
          /\ \A user \in Users : \A key \in CartComponentKeys(user) :
                key[1] \in DOMAIN recipes)
    /\ [][(/\ request'.op = "recipes" /\ request'.method = "DELETE"
           /\ response'.status = 204)
          => /\ request'.target \in DOMAIN recipes \ DOMAIN recipes'
             /\ \A key \in LinkKeys :
                   /\ favorites'[key] =
                         IF key[2] = request'.target THEN 0 ELSE favorites[key]
                   /\ shopping_carts'[key] =
                         IF key[2] = request'.target THEN 0 ELSE shopping_carts[key]
             /\ \A key \in ComponentKeys :
                   recipe_ingredients'[key] =
                      IF key[1] = request'.target THEN NoRows
                      ELSE recipe_ingredients[key]]_vars

\* C28 witness: the first recipe was deleted; the second is in both users'
\* carts and is what their exports list.
C28_Witness ==
    /\ request.op = "recipes" /\ request.method = "DELETE"
    /\ response.status = 204
    /\ request.target = 1
    /\ DOMAIN recipes = {2}
    /\ \A user \in Users :
          /\ shopping_carts[<<user, 2>>] = 1
          /\ AggregatedRows(user) # {}

\* ---------------------------------------------------------------------
\* No recipe without ingredients
\* ---------------------------------------------------------------------

\* What these requests carry as their ingredient list: nothing (the key is
\* missing), the empty list, a list of one and a list of two.
NonEmptyData ==
    {RecipeData(NamePieOne, TRUE, <<Component(1, MinAmount)>>),
     RecipeData(NamePieOne, TRUE, <<Component(2, MinAmount), Component(3, MaxAmount)>>)}

EmptyOrMissing ==
    {RecipeData(NamePieOne, TRUE, <<>>), RecipeData(NamePieOne, FALSE, <<>>)}

\* Recipes are created and updated (PUT and PATCH) with any of these.
NextNonEmpty ==
    \/ \E user \in Users, data \in NonEmptyData \cup EmptyOrMissing :
          create_recipe(user, data)
    \/ \E user \in Users, id \in RecipeIds, partial \in BOOLEAN,
          data \in NonEmptyData \cup EmptyOrMissing :
          update_recipe(user, id, data, partial)

SpecNonEmpty == Init /\ [][NextNonEmpty]_vars

\* The step is a create or an update that submits the data.
Submits(data) ==
    IF request'.method = "POST"
    THEN create_recipe(request'.user, data)
    ELSE update_recipe(request'.user, request'.target, data,
                       request'.method = "PATCH")

\* C29: every stored recipe has at least one RecipeIngredient row; a create,
\* or a full or partial update by the author, whose ingredient list is empty
\* or missing is answered 400 and leaves the recipes and the ingredient rows
\* as they were.
C29_RecipesKeepIngredients ==
    /\ [](\A id \in DOMAIN recipes :
             ComponentsOf(recipe_ingredients, id) # NoComponents)
    /\ [][(/\ request'.op = "recipes"
           /\ request'.method \in {"POST", "PUT", "PATCH"}
           /\ (request'.method = "POST"
                  \/ (/\ request'.target \in DOMAIN recipes
                      /\ recipes[request'.target].author = request'.user)))
          => \A data \in EmptyOrMissing :
                Submits(data)
                   => /\ response'.status = 400
                      /\ recipes' = recipes
                      /\ recipe_ingredients' = recipe_ingredients]_vars

\* C29 witness: the author's partial update without ingredients was refused
\* and the recipe keeps the two rows it had.
C29_Witness ==
    /\ request.op = "recipes" /\ request.method = "PATCH"
    /\ response = Response(400, "At least one ingredient is required")
    /\ request.target \in DOMAIN recipes
    /\ recipes[request.target].author = request.user
    /\ recipe_ingredients[<<request.target, 2>>] # NoRows
    /\ recipe_ingredients[<<request.target, 3>>] # NoRows

\* ---------------------------------------------------------------------
\* The caller's flags in a recipe representation
\* ---------------------------------------------------------------------

\* RecipeFilter.filter_favorite_recipes / filter_cart_recipes: with the
\* parameter true and the caller authenticated, the recipes the caller has in
\* the relation; else all of them.
filter_user_recipes(table, ids, value, user) ==
    IF value /\ user \in users
    THEN {id \in ids : Exists(table, <<user, id>>)}
    ELSE ids

RECURSIVE NewestFirst(_)
\* Recipe.Meta.ordering = ['-pub_date']: the recipes from the last created.
NewestFirst(ids) ==
    IF ids = {} THEN <<>>
    ELSE LET last == CHOOSE x \in ids : \A y \in ids : y <= x
         IN <<last>> \o NewestFirst(ids \ {last})

\* RecipeAPIViewSet.list: GET /recipes/?is_favorited=..&is_in_shopping_cart=..
\* answers with the representations of the recipes the filters leave.
list_recipes(user, is_favorited, is_in_shopping_cart) ==
    /\ request' = Request("recipes", "GET", user, 0)
    /\ LET favorite == filter_user_recipes(favorites, DOMAIN recipes, is_favorited, user)
           in_cart == filter_user_recipes(shopping_carts, favorite,
                                          is_in_shopping_cart, user)
           page == NewestFirst(in_cart)
       IN response' = [status |-> 200, detail |-> "recipes",
                       rows |-> [k \in DOMAIN page |-> RecipeListSerializer(user, page[k])]]
    /\ UNCHANGED <<ingredient_table, users, recipes, next_id, recipe_ingredients, favorites,
                   shopping_carts, follows, workers>>

\* Recipes are created and deleted, marked as favorites and put in carts, and
\* read one by one and as a list by users and by an anonymous caller.
NextFlags ==
    \/ create_recipe("chef", RecipeData(NamePieOne, TRUE, <<Component(1, MinAmount)>>))
    \/ \E id \in RecipeIds : destroy_recipe("chef", id)
    \/ \E method \in Methods, user \in Users, pk \in RecipeIds :
          favorite_action(method, user, pk)
    \/ \E method \in Methods, user \in Users, pk \in RecipeIds :
          shopping_cart_action(method, user, pk)
    \/ \E user \in Users \cup {Anonymous}, id \in RecipeIds : retrieve_recipe(user, id)
    \/ \E user \in Users \cup {Anonymous}, is_favorited \in BOOLEAN,
          is_in_shopping_cart \in BOOLEAN :
          list_recipes(user, is_favorited, is_in_shopping_cart)

SpecFlags == Init /\ [][NextFlags]_vars

\* The recipe representations in the answer to the last request.
Representations ==
    IF request.op = "recipes" /\ request.method = "GET" /\ response.status = 200
    THEN IF response.detail = "recipe" THEN {response.recipe}
         ELSE {response.rows[k] : k \in DOMAIN response.rows}
    ELSE {}

\* C30: in each representation a read request is answered with, is_favorited
\* says whether the caller has a Favorite row for the recipe and
\* is_in_shopping_cart whether the caller has a ShoppingCart row for it, as
\* the tables stand; for an anonymous caller both are false.
C30_FlagsMatchRelations ==
    \A recipe \in Representations :
        IF request.user \in Users
        THEN /\ recipe.is_favorited = (favorites[<<request.user, recipe.id>>] > 0)
             /\ recipe.is_in_shopping_cart
                   = (shopping_carts[<<request.user, recipe.id>>] > 0)
        ELSE ~recipe.is_favorited /\ ~recipe.is_in_shopping_cart

\* C30 witness: a user's list shows two recipes, one a favorite of that
\* user's only and in nobody's cart, the other in that user's cart and a
\* favorite of the other user's only.
C30_Witness ==
    /\ request.op = "recipes" /\ request.method = "GET"
    /\ request.user \in Users
    /\ response.status = 200 /\ response.detail = "recipes"
    /\ Len(response.rows) = 2
    /\ \E j, k \in DOMAIN response.rows :
          /\ response.rows[j].is_favorited /\ ~response.rows[j].is_in_shopping_cart
          /\ ~response.rows[k].is_favorited /\ response.rows[k].is_in_shopping_cart
          /\ \E other \in Users \ {request.user} :
                /\ favorites[<<other, response.rows[k].id>>] = 1
                /\ favorites[<<other, response.rows[j].id>>] = 0

====
